---- MODULE Spec2Model ----
(***************************************************************************)
(* Fitbit integration of the meal planner: the OAuth initiators and       *)
(* callback handlers (supabase/functions/fitbit-auth, fitbit-oauth-start,  *)
(* fitbit-oauth-callback), the meal-log relay (fitbit-log-meal) with its   *)
(* refresh-and-retry, and the client component FitbitIntegration.tsx.      *)
(*                                                                         *)
(* Strings are sequences of character groups (<<"u1">> is the string u1,   *)
(* <<>> the empty or missing string), so that concatenation, URL encoding  *)
(* and split are computed and not assumed.                                 *)
(***************************************************************************)
EXTENDS Integers, Sequences, FiniteSets, Bags, TLC

VARIABLES
    env,        \* Deno.env of the deployment (fixed during a behaviour)
    schema,     \* the key constraints of table profiles (fixed during a behaviour)
    db,         \* table profiles, by user_id: a row or NoRow
    issued,     \* number of token responses the provider has issued
    now,        \* the latest reading of the clock (new Date().toISOString())
    sync,       \* fitbit-log-meal invocations
    compl,      \* OAuth callback invocations
    initResp,   \* response of the latest connect request (POST)
    uuids,      \* number of values crypto.randomUUID() has returned
    facade,     \* FitbitIntegration component state
    lastAuth    \* per user_id: the last completion or disconnect that wrote the row

vars == <<env, schema, db, issued, now, sync, compl, initResp, uuids, facade, lastAuth>>

----------------------------------------------------------------------------
(* Bounds *)

\* token responses (authorization_code or refresh_token grants) the provider issues
MaxIssued == 2

\* the latest reading of the clock in a behaviour, in milliseconds
MaxClock == 2

\* values crypto.randomUUID() returns in a behaviour
MaxUuids == 2

\* connect attempts the user starts in a behaviour
MaxAttempts == 2

\* updates of disconnectFitbit the component has in flight at a time
MaxPending == 2

----------------------------------------------------------------------------
(* Values *)

Users == {<<"u1">>, <<"u2">>}

\* a state value no connect request ever produced
ForgedState == <<"zz">>

\* the n-th value of crypto.randomUUID(): every call returns a new one
Uuid(n) == "uuid" \o ToString(n)

Uuids == {Uuid(n) : n \in 1 .. MaxUuids}

\* milliseconds between one reading of the clock and the next
Ticks == {0, 1}

Syncs == {"s1", "s2"}

Compls == {"c1", "c2"}

NullTok == [t |-> "null", n |-> 0]

AccessTok(n) == [t |-> "access", n |-> n]

RefreshTok(n) == [t |-> "refresh", n |-> n]

\* provider-side user ids ("null" is the SQL null of fitbit_user_id)
FitbitIds == {"F1"}

\* user.encodedId of the answers of GET /1/user/-/profile.json
EncodedIds == {"F1", "F2"}

\* the body of a POST as `const { userId } = await req.json()` takes it: not
\* JSON (req.json() throws), the JSON value null (the destructuring throws), or
\* another JSON value, of which userId is read
Bodies == {"invalid", "null", "object"}

\* error.message of the SyntaxError that req.json() throws on a body that is
\* not JSON
BodySyntaxError == "Unexpected end of JSON input"

\* error.message of the TypeError that `const { userId } = null` throws
DestructureError ==
    "Cannot destructure property 'userId' of '(intermediate value)' as it is null."

\* the body of a POST to fitbit-log-meal: as above, with "nomeal" for a JSON
\* object that holds no mealData (the handler reads mealData.name)
SyncBodies == Bodies \cup {"nomeal"}

\* error.message of the TypeError that mealData.name throws when mealData is
\* undefined
MealDataError == "Cannot read properties of undefined (reading 'name')"

\* a text that a response page repeats unescaped: both error pages of
\* fitbit-oauth-callback write it into a paragraph, the page of the catch
\* block also into a single-quoted string of its script.
\*   plain: no quote, line break or markup;
\*   quote: a quote or line break that leaves the script a SyntaxError;
\*   script: text that ends the string and the call, goes on with
\*     window.opener.postMessage({ type: 'FITBIT_AUTH_SUCCESS' }, '*') and
\*     leaves a script that parses and runs to its end;
\*   thrower: text that ends the string and the call and then throws;
\*   script_thrower: as script, with a throw after its postMessage;
\*   markup, markup_error, markup_both: a <script> element that posts
\*     FITBIT_AUTH_SUCCESS, FITBIT_AUTH_ERROR, or the two;
\*   closer, markup_closer: a <script> element that calls window.close(),
\*     the second after posting FITBIT_AUTH_SUCCESS;
\*   swallow: a start tag or comment opener that takes the rest of the page
\*     as its content (<plaintext>, <title>, <script>, <!--);
\*   markup_swallow, markup_error_swallow, markup_both_swallow: a <script>
\*     element as in markup, markup_error, markup_both, followed by <!--
Texts ==
    {"plain", "quote", "script", "thrower", "script_thrower",
     "markup", "markup_error", "markup_both", "closer", "markup_closer",
     "swallow", "markup_swallow", "markup_error_swallow", "markup_both_swallow"}

\* what a text does when it is parsed as HTML. posts: the messages its
\* <script> elements post; closes: one of them calls window.close(); element:
\* it has a <script> element, whose end tag, where the text is repeated in a
\* string of the page's script, ends that script in the middle of the string;
\* swallows: it takes the rest of the page as content, the page's script
\* included
Markup(text) ==
    [posts |-> CASE text \in {"markup", "markup_closer", "markup_swallow"} ->
                      {"FITBIT_AUTH_SUCCESS"}
                 [] text \in {"markup_error", "markup_error_swallow"} ->
                      {"FITBIT_AUTH_ERROR"}
                 [] text \in {"markup_both", "markup_both_swallow"} ->
                      {"FITBIT_AUTH_ERROR", "FITBIT_AUTH_SUCCESS"}
                 [] OTHER -> {},
     closes |-> text \in {"closer", "markup_closer"},
     element |-> text \in {"markup", "markup_error", "markup_both", "closer",
                           "markup_closer", "markup_swallow",
                           "markup_error_swallow", "markup_both_swallow"},
     swallows |-> text \in {"swallow", "markup_swallow", "markup_error_swallow",
                            "markup_both_swallow"}]

\* the texts that bring no statement of their own
Inert == {"plain", "quote"}

\* the rows of one user_id: the row written last, and in `more` the number of
\* further rows with that user_id (none where user_id is unique)
NoRow == [exists |-> FALSE, fitbit_access_token |-> NullTok,
          fitbit_refresh_token |-> NullTok, fitbit_user_id |-> "null",
          fitbit_connected_at |-> 0, updated_at |-> 0, more |-> 0]

\* a profile row the application created at sign-up, never connected
BlankRow == [NoRow EXCEPT !.exists = TRUE]

\* JavaScript truthiness of a string
Truthy(s) == Len(s) > 0

Attempts == 1 .. MaxAttempts

\* the window named 'fitbit-auth' (id: the attempt whose window.open created it;
\* closing: the page has set its timer for window.close(); posted: the messages
\* the page has sent to window.opener)
NoWindow == [id |-> 0, open |-> FALSE, page |-> "none", closing |-> FALSE,
             posted |-> {}]

\* what a call of connectToFitbit holds: popup, checkClosed, messageListener and
\* the cleanup timer (timer: its delay in ms, 0 when none is pending)
NoAttempt == [pc |-> "none", popup |-> 0, interval |-> FALSE, listener |-> FALSE,
              timer |-> 0, exit |-> "none"]

\* the component as it is rendered first for user u, before its effect runs.
\* reads: the selects of checkFitbitConnection in flight, "sent" or answered
\* ("data": a row with an access token, "nodata", "error"); checkTimers: the
\* pending setTimeout(checkFitbitConnection, 1000); discs: the updates of
\* disconnectFitbit in flight, sent with their stamp or answered; tests: the
\* requests of testFitbitConnection in flight
NewFacade(u) ==
    [user |-> u, isConnected |-> FALSE, fitbitProfile |-> "null", loading |-> TRUE,
     toast |-> "none", mounted |-> FALSE, reads |-> EmptyBag,
     checkTimers |-> 0, discs |-> EmptyBag, tests |-> {},
     isConnecting |-> FALSE, n |-> 0,
     attempts |-> [a \in Attempts |-> NoAttempt], win |-> NoWindow, inbox |-> {}]

----------------------------------------------------------------------------
(* URLs *)

HardHost == "wmqfonczkedrrdnfwpfc.supabase.co"

FunctionsPath == "/functions/v1/"

\* `${supabaseUrl}/functions/v1/fitbit-auth`
AuthRedirectUri(supabaseUrl) == supabaseUrl \o <<FunctionsPath, "fitbit-auth">>

\* the constant FITBIT_REDIRECT_URI of fitbit-oauth-start
StartRedirectUri == <<"https", "://", HardHost, FunctionsPath, "fitbit-oauth-callback">>

EncodeChar(c) ==
    CASE c = "://" -> "%3A%2F%2F"
      [] c = FunctionsPath -> "%2Ffunctions%2Fv1%2F"
      [] c = " " -> "%20"
      [] OTHER -> c

DecodeChar(c) ==
    CASE c = "%3A%2F%2F" -> "://"
      [] c = "%2Ffunctions%2Fv1%2F" -> FunctionsPath
      [] c = "%20" -> " "
      [] c = "+" -> " "
      [] OTHER -> c

encodeURIComponent(s) == [i \in DOMAIN s |-> EncodeChar(s[i])]

\* what the receiver of a query string or form body reads back
decodeParam(s) == [i \in DOMAIN s |-> DecodeChar(s[i])]

----------------------------------------------------------------------------
(* Deployment configurations *)

EnvGood == [FITBIT_CLIENT_ID |-> <<"23TJDY">>,
            FITBIT_CLIENT_SECRET |-> <<"secret">>,
            SUPABASE_URL |-> <<"https", "://", HardHost>>,
            SUPABASE_SERVICE_ROLE_KEY |-> <<"key">>,
            FITBIT_REDIRECT_URI |-> StartRedirectUri]

\* FITBIT_REDIRECT_URI set to the fitbit-auth address
EnvDrift == [EnvGood EXCEPT !.FITBIT_REDIRECT_URI = AuthRedirectUri(EnvGood.SUPABASE_URL)]

EnvNoClient == [EnvGood EXCEPT !.FITBIT_CLIENT_ID = <<>>]

Envs == {EnvGood, EnvDrift, EnvNoClient}

EnvNoSecret == [EnvGood EXCEPT !.FITBIT_CLIENT_SECRET = <<>>]

EnvNoUrl == [EnvGood EXCEPT !.SUPABASE_URL = <<>>]

EnvNoKey == [EnvGood EXCEPT !.SUPABASE_SERVICE_ROLE_KEY = <<>>]

EnvNoRedirect == [EnvGood EXCEPT !.FITBIT_REDIRECT_URI = <<>>]

\* deployments in which one variable is not set
EnvsBroken == {EnvNoClient, EnvNoSecret, EnvNoUrl, EnvNoKey, EnvNoRedirect}

----------------------------------------------------------------------------
(* Table profiles *)

\* every value that is used as a user_id key
Keys == Users \cup {<<u, "_", k[1]>> : u \in Uuids, k \in Users} \cup {ForgedState}

\* an update that leaves fitbit_refresh_token out of the payload
RefreshedRow_AccessOnly(row, data, t) ==
    [row EXCEPT !.fitbit_access_token = data.access_token,
                !.updated_at = t]

\* an update that also writes the user id of the token response and the time
\* of connection
RefreshedRow_WithIdentity(row, data, t) ==
    [row EXCEPT !.fitbit_access_token = data.access_token,
                !.fitbit_refresh_token = data.refresh_token,
                !.fitbit_user_id = data.user_id,
                !.fitbit_connected_at = t,
                !.updated_at = t]

\* an update that keeps the stored pair when it is the more recent one
RefreshedRow_KeepNewer(row, data, t) ==
    IF row.fitbit_access_token.n > data.access_token.n
      THEN row
      ELSE [row EXCEPT !.fitbit_access_token = data.access_token,
                       !.fitbit_refresh_token = data.refresh_token,
                       !.updated_at = t]

\* .update({tokens, updated_at}).eq('user_id', userId) of refreshToken
RefreshedRow(row, data, t) ==
    [row EXCEPT !.fitbit_access_token = data.access_token,
                !.fitbit_refresh_token = data.refresh_token,
                !.updated_at = t]

\* an upsert that leaves fitbit_connected_at out of the payload
UpsertedRow_NoConnectedAt(tokenData, fitbitUserId, connectedAt, updatedAt) ==
    [exists |-> TRUE,
     fitbit_access_token |-> tokenData.access_token,
     fitbit_refresh_token |-> tokenData.refresh_token,
     fitbit_user_id |-> fitbitUserId,
     fitbit_connected_at |-> 0,
     updated_at |-> updatedAt,
     more |-> 0]

\* .upsert({user_id, tokens, fitbit_user_id, fitbit_connected_at, updated_at}) of
\* the callbacks; the payload reads the clock once for each of the two timestamps
UpsertedRow(tokenData, fitbitUserId, connectedAt, updatedAt) ==
    [exists |-> TRUE,
     fitbit_access_token |-> tokenData.access_token,
     fitbit_refresh_token |-> tokenData.refresh_token,
     fitbit_user_id |-> fitbitUserId,
     fitbit_connected_at |-> connectedAt,
     updated_at |-> updatedAt,
     more |-> 0]

\* a disconnect that leaves fitbit_refresh_token out of the payload
DisconnectedRow_KeepsRefresh(row, t) ==
    [row EXCEPT !.fitbit_access_token = NullTok,
                !.fitbit_user_id = "null",
                !.fitbit_connected_at = 0,
                !.updated_at = t]

\* .update({four fields: null, updated_at}) of disconnectFitbit
DisconnectedRow(row, t) ==
    [row EXCEPT !.fitbit_access_token = NullTok,
                !.fitbit_refresh_token = NullTok,
                !.fitbit_user_id = "null",
                !.fitbit_connected_at = 0,
                !.updated_at = t]

\* new Date() can return the reading t
CanRead(t) == t >= now /\ t <= MaxClock

\* the provider's token endpoint can still answer with a new pair
CanIssue == issued < MaxIssued

TokenData(n, fid) ==
    [access_token |-> AccessTok(n), refresh_token |-> RefreshTok(n), user_id |-> fid]

NoTokenData == [access_token |-> NullTok, refresh_token |-> NullTok, user_id |-> "null"]

----------------------------------------------------------------------------
(* fitbit-log-meal *)

\* error.message of the responses, by the kind of failure
ConfigurationError == "Fitbit credentials not configured"

ClientInitError == "supabaseUrl is required."

ClientKeyError == "supabaseKey is required."

NotConnected == "User not connected to Fitbit"

RefreshFailed == "Failed to refresh Fitbit token"

SyncFailed == "Fitbit API error"

\* statuses of the provider's food-log endpoint
WriteStatuses == {200, 401, 500}

\* foodLog.logId of a success body ("undefined": the body carries none)
LogIds == {"42", "undefined"}

\* JavaScript values of a property read: a number, a member the object inherits
\* from Object.prototype (a function or an object, truthy), or undefined
Num(n) == [kind |-> "number", n |-> n]

Inherited == [kind |-> "inherited", n |-> 0]

Undefined == [kind |-> "undefined", n |-> 0]

NoResult == [success |-> FALSE, status |-> 0, error |-> "", fitbitLogId |-> "undefined",
             providerStatus |-> 0]

IdleSync == [pc |-> "idle", userId |-> <<>>, mealType |-> "",
             profile |-> NoRow, accessToken |-> NullTok,
             refreshData |-> NoTokenData, refreshSent |-> NullTok,
             status1 |-> 0, status2 |-> 0, tok1 |-> NullTok, tok2 |-> NullTok,
             updatedAt |-> 0,
             mealTypeId |-> Undefined, nWrite |-> 0, nRefresh |-> 0, nUpdate |-> 0,
             updateOk |-> FALSE, read |-> "none", sawAuth |-> "none",
             result |-> NoResult]

\* Response.ok
IsOk(status) == status >= 200 /\ status <= 299

\* names that every object literal answers through Object.prototype
ObjectMembers == {"constructor", "__defineGetter__", "__defineSetter__", "hasOwnProperty",
                  "__lookupGetter__", "__lookupSetter__", "isPrototypeOf",
                  "propertyIsEnumerable", "toString", "valueOf", "__proto__",
                  "toLocaleString"}

\* a table that numbers the three main meals in order
mealTypeMap_Ordinal(mealType) ==
    CASE mealType = "breakfast" -> Num(1)
      [] mealType = "lunch" -> Num(2)
      [] mealType = "dinner" -> Num(3)
      [] mealType \in ObjectMembers -> Inherited
      [] OTHER -> Undefined

\* mealTypeMap[mealType], a property read of the object literal
mealTypeMap(mealType) ==
    CASE mealType = "breakfast" -> Num(1)
      [] mealType = "morning-snack" -> Num(2)
      [] mealType = "lunch" -> Num(3)
      [] mealType = "afternoon-snack" -> Num(4)
      [] mealType = "dinner" -> Num(5)
      [] mealType = "evening-snack" -> Num(7)
      [] mealType \in ObjectMembers -> Inherited
      [] OTHER -> Undefined

\* JavaScript truthiness of a property value
TruthyValue(v) == v.kind = "inherited" \/ (v.kind = "number" /\ v.n # 0)

\* mealTypeMap[mealType] || 1
getFitbitMealTypeId(mealType) ==
    IF TruthyValue(mealTypeMap(mealType)) THEN mealTypeMap(mealType) ELSE Num(1)

\* the keys of mealTypeMap
TableMealTypes == {"breakfast", "morning-snack", "lunch", "afternoon-snack", "dinner",
                   "evening-snack"}

\* mealData.mealType of the requests ("" : the field is missing)
MealTypes == TableMealTypes \cup {"brunch", "Lunch", "", "constructor", "valueOf"}

\* the catch block: status 500, { success: false, error }
ErrorResponse(message, providerStatus) ==
    [success |-> FALSE, status |-> 500, error |-> message, fitbitLogId |-> "undefined",
     providerStatus |-> providerStatus]

\* { success: true, fitbitLogId: fitbitResult.foodLog?.logId }
SuccessResponse(logId) ==
    [success |-> TRUE, status |-> 200, error |-> "", fitbitLogId |-> logId,
     providerStatus |-> 200]

\* `.single()`: the select answers the error PGRST116 unless it finds one row
NotSingle(row) == ~row.exists \/ row.more > 0

\* a check that does not look at profileError
ProfileMissing_IgnoresError(readOk, row) ==
    NotSingle(row) \/ row.fitbit_access_token = NullTok

\* profileError || !profile?.fitbit_access_token
ProfileMissing(readOk, row) ==
    ~readOk \/ NotSingle(row) \/ row.fitbit_access_token = NullTok

\* a check that takes every failure of the write for an expired token
TokenExpired_AnyFailure(status) == ~IsOk(status)

\* if (response.status === 401)
TokenExpired(status) == status = 401

\* what the handler answers once it holds the last provider response
FinalResponse(status, logId) ==
    IF IsOk(status) THEN SuccessResponse(logId) ELSE ErrorResponse(SyncFailed, status)

\* the request arrives: configuration, client, body, the read of the profile
\* and the payload of the first write (u, mt: userId and mealData.mealType of a
\* body the handler can destructure; readOk = FALSE: the select answers an
\* error of its own)
SyncArrive(s, body, u, mt, readOk) ==
    /\ sync[s].pc = "idle"
    /\ body \in {"invalid", "null"} => readOk
    /\ LET configured == Truthy(env.FITBIT_CLIENT_ID) /\ Truthy(env.FITBIT_CLIENT_SECRET)
           clientUrl == Truthy(env.SUPABASE_URL)
           clientKey == Truthy(env.SUPABASE_SERVICE_ROLE_KEY)
           row == db[u]
           base == [IdleSync EXCEPT !.userId = u,
                                   !.mealType = IF body = "nomeal" THEN "" ELSE mt]
           read == [base EXCEPT !.sawAuth = lastAuth[u],
                                !.read = IF ~readOk \/ row.more > 0 THEN "error"
                                         ELSE IF ~row.exists THEN "norow" ELSE "row",
                                !.profile = IF readOk /\ row.more = 0 THEN row
                                            ELSE NoRow]
       IN  sync' = [sync EXCEPT ![s] =
              IF ~configured
                THEN [base EXCEPT !.pc = "done",
                                  !.result = ErrorResponse(ConfigurationError, 0)]
              ELSE IF ~clientUrl
                THEN [base EXCEPT !.pc = "done",
                                  !.result = ErrorResponse(ClientInitError, 0)]
              ELSE IF ~clientKey
                THEN [base EXCEPT !.pc = "done",
                                  !.result = ErrorResponse(ClientKeyError, 0)]
              ELSE IF body = "invalid"
                THEN [IdleSync EXCEPT !.pc = "done",
                                      !.result = ErrorResponse(BodySyntaxError, 0)]
              ELSE IF body = "null"
                THEN [IdleSync EXCEPT !.pc = "done",
                                      !.result = ErrorResponse(DestructureError, 0)]
              ELSE IF ProfileMissing(readOk, row)
                THEN [read EXCEPT !.pc = "done",
                                  !.result = ErrorResponse(NotConnected, 0)]
              ELSE IF body = "nomeal"
                THEN [read EXCEPT !.pc = "done",
                                  !.accessToken = row.fitbit_access_token,
                                  !.result = ErrorResponse(MealDataError, 0)]
              ELSE [read EXCEPT !.pc = "write1",
                                !.accessToken = row.fitbit_access_token]]

\* a request to fitbit-log-meal arrives (as invocation s, which is not the
\* one that serves a request of testFitbitConnection on its way)
SyncStart(s, body, u, mt, readOk) ==
    /\ s \notin facade.tests
    /\ SyncArrive(s, body, u, mt, readOk)
    /\ UNCHANGED <<env, schema, db, issued, now, compl, initResp, uuids, facade, lastAuth>>

\* logFoodToFitbit(accessToken): the first attempt and the provider's answer
SyncFirstWrite(s, status, logId) ==
    /\ sync[s].pc = "write1"
    /\ LET me == [sync[s] EXCEPT !.status1 = status, !.tok1 = sync[s].accessToken,
                                 !.mealTypeId = getFitbitMealTypeId(sync[s].mealType),
                                 !.nWrite = @ + 1]
       IN  sync' = [sync EXCEPT ![s] =
              IF TokenExpired(status)
                THEN [me EXCEPT !.pc = "refresh"]
                ELSE [me EXCEPT !.pc = "done", !.result = FinalResponse(status, logId)]]
    /\ UNCHANGED <<env, schema, db, issued, now, compl, initResp, uuids, facade, lastAuth>>

\* a refresh that does not look at the status of the token endpoint
RefreshRejected_Never(ok) == FALSE

\* if (!refreshResponse.ok)
RefreshRejected(ok) == ~ok

\* a refresh that clears the stored pair when the token endpoint rejects it
SyncRefresh_ClearsOnReject(s, ok, d) ==
    /\ sync[s].pc = "refresh"
    /\ ok => CanIssue
    /\ CanRead(now + d)
    /\ LET me == [sync[s] EXCEPT !.nRefresh = @ + 1,
                                 !.refreshSent = sync[s].profile.fitbit_refresh_token,
                                 !.refreshData = IF ok THEN TokenData(issued + 1, "null")
                                                 ELSE NoTokenData,
                                 !.updatedAt = now + d]
           u == sync[s].userId
       IN  /\ sync' = [sync EXCEPT ![s] =
                 IF RefreshRejected(ok)
                   THEN [me EXCEPT !.pc = "done",
                                   !.result = ErrorResponse(RefreshFailed, 0)]
                   ELSE [me EXCEPT !.pc = "update"]]
           /\ db' = IF ok THEN db
                     ELSE [db EXCEPT ![u] = RefreshedRow(db[u], NoTokenData, now + d)]
    /\ now' = now + d
    /\ issued' = IF ok THEN issued + 1 ELSE issued
    /\ UNCHANGED <<env, schema, compl, initResp, uuids, facade, lastAuth>>

\* refreshToken(): the exchange at the token endpoint and, when it is accepted,
\* the payload of the update, which reads the clock d ms after the reading
\* before it (a rejected exchange throws before the clock is read)
SyncRefresh(s, ok, d) ==
    /\ sync[s].pc = "refresh"
    /\ ok => CanIssue
    /\ IF ok THEN CanRead(now + d) ELSE d = 0
    /\ LET me == [sync[s] EXCEPT !.nRefresh = @ + 1,
                                 !.refreshSent = sync[s].profile.fitbit_refresh_token,
                                 !.refreshData = IF ok THEN TokenData(issued + 1, "null")
                                                 ELSE NoTokenData]
       IN  sync' = [sync EXCEPT ![s] =
              IF RefreshRejected(ok)
                THEN [me EXCEPT !.pc = "done",
                                !.result = ErrorResponse(RefreshFailed, 0)]
                ELSE [me EXCEPT !.pc = "update", !.updatedAt = now + d]]
    /\ issued' = IF ok THEN issued + 1 ELSE issued
    /\ now' = now + d
    /\ UNCHANGED <<env, schema, db, compl, initResp, uuids, facade, lastAuth>>

\* an update of the profiles that names no row: it lands on every row
SyncUpdate_NoFilter(s, writeOk) ==
    /\ sync[s].pc = "update"
    /\ LET u == sync[s].userId
           hit == writeOk /\ db[u].exists
       IN  /\ db' = IF hit
                      THEN [k \in Keys |->
                              IF db[k].exists
                                THEN [db[k] EXCEPT
                                        !.fitbit_access_token = sync[s].refreshData.access_token,
                                        !.fitbit_refresh_token = sync[s].refreshData.refresh_token,
                                        !.updated_at = sync[s].updatedAt]
                                ELSE db[k]]
                      ELSE db
           /\ UNCHANGED <<now, lastAuth>>
           /\ sync' = [sync EXCEPT ![s] =
                 [sync[s] EXCEPT !.pc = "write2", !.nUpdate = @ + 1, !.updateOk = hit,
                                 !.accessToken = sync[s].refreshData.access_token]]
    /\ UNCHANGED <<env, schema, issued, compl, initResp, uuids, facade>>

\* a retry that keeps the token of the first attempt
RetryToken_Stale(current, refreshData) == current

\* accessToken = await refreshToken()
RetryToken(current, refreshData) == refreshData.access_token

\* refreshToken(): the update of the profile takes effect with the payload
\* built before it was sent; its outcome is not read, and
\* refreshData.access_token is returned
SyncUpdate(s, writeOk) ==
    /\ sync[s].pc = "update"
    /\ LET u == sync[s].userId
           hit == writeOk /\ db[u].exists
       IN  /\ db' = IF hit
                      THEN [db EXCEPT ![u] = RefreshedRow(db[u], sync[s].refreshData,
                                                          sync[s].updatedAt)]
                      ELSE db
           /\ UNCHANGED <<now, lastAuth>>
           /\ sync' = [sync EXCEPT ![s] =
                 [sync[s] EXCEPT !.pc = "write2", !.nUpdate = @ + 1, !.updateOk = hit,
                                 !.accessToken = RetryToken(sync[s].accessToken,
                                                            sync[s].refreshData)]]
    /\ UNCHANGED <<env, schema, issued, compl, initResp, uuids, facade>>

\* a retry that refreshes again for as long as the provider answers 401
SyncRetry_UntilAccepted(s, status, logId) ==
    /\ sync[s].pc = "write2"
    /\ sync' = [sync EXCEPT ![s] =
          IF status = 401
            THEN [sync[s] EXCEPT !.pc = "refresh", !.status2 = status,
                                 !.tok2 = sync[s].accessToken, !.nWrite = @ + 1]
            ELSE [sync[s] EXCEPT !.pc = "done", !.status2 = status,
                                 !.tok2 = sync[s].accessToken, !.nWrite = @ + 1,
                                 !.result = FinalResponse(status, logId)]]
    /\ UNCHANGED <<env, schema, db, issued, now, compl, initResp, uuids, facade, lastAuth>>

\* logFoodToFitbit(accessToken) after the refresh, and the response
SyncRetry(s, status, logId) ==
    /\ sync[s].pc = "write2"
    /\ sync' = [sync EXCEPT ![s] =
          [sync[s] EXCEPT !.pc = "done", !.status2 = status,
                          !.tok2 = sync[s].accessToken, !.nWrite = @ + 1,
                          !.result = FinalResponse(status, logId)]]
    /\ UNCHANGED <<env, schema, db, issued, now, compl, initResp, uuids, facade, lastAuth>>

\* the response is transmitted and the invocation ends (the response to a
\* request of the component is read by testFitbitConnection)
SyncRespond(s) ==
    /\ sync[s].pc = "done"
    /\ s \notin facade.tests
    /\ sync' = [sync EXCEPT ![s] = IdleSync]
    /\ UNCHANGED <<env, schema, db, issued, now, compl, initResp, uuids, facade, lastAuth>>

----------------------------------------------------------------------------
(* Connect requests (POST): fitbit-auth, its two earlier versions (v1, v2),   *)
(* fitbit-oauth-start                                                        *)

Initiators == {"fitbit-auth", "fitbit-auth-v1", "fitbit-auth-v2", "fitbit-oauth-start"}

AuthScope == <<"nutrition", " ", "weight", " ", "heartrate", " ", "activity", " ",
               "location", " ", "profile", " ", "sleep">>

StartScope == <<"nutrition", " ", "profile", " ", "weight", " ", "activity", " ",
                "heartrate", " ", "sleep">>

\* URLSearchParams serialisation (application/x-www-form-urlencoded)
FormEncodeChar(c) == IF c = " " THEN "+" ELSE EncodeChar(c)

formEncode(s) == [i \in DOMAIN s |-> FormEncodeChar(s[i])]

NoUrl == [response_type |-> <<>>, client_id |-> <<>>, redirect_uri |-> <<>>,
          scope |-> <<>>, state |-> <<>>]

\* variant, body, userId: the request; the other fields: the response
NoInit == [variant |-> "none", body |-> "none", userId |-> <<>>, status |-> 0,
           success |-> FALSE, error |-> "", authUrl |-> NoUrl, state |-> <<>>]

MissingEnv == "Missing required environment variables"

UserIdRequired == "User ID is required"

AuthHeaderRequired == "Authorization header required for POST requests"

UrlFailed == "Failed to generate auth URL"

InitError(variant, body, userId, status, message) ==
    [NoInit EXCEPT !.variant = variant, !.body = body, !.userId = userId,
                   !.status = status, !.error = message]

\* fitbit-auth, POST branch
AuthInitiate(userId, hasAuthHeader, body) ==
    LET v == "fitbit-auth" IN
    IF ~(Truthy(env.FITBIT_CLIENT_ID) /\ Truthy(env.FITBIT_CLIENT_SECRET)
         /\ Truthy(env.SUPABASE_URL) /\ Truthy(env.SUPABASE_SERVICE_ROLE_KEY))
      THEN InitError(v, body, userId, 500, MissingEnv)
    ELSE IF ~hasAuthHeader
      THEN InitError(v, body, userId, 401, AuthHeaderRequired)
    ELSE IF body = "invalid"
      THEN InitError(v, body, userId, 500, BodySyntaxError)
    ELSE IF body = "null"
      THEN InitError(v, body, userId, 500, DestructureError)
    ELSE IF ~Truthy(userId)
      THEN InitError(v, body, userId, 500, UserIdRequired)
    ELSE [variant |-> v, body |-> body, userId |-> userId, status |-> 200,
          success |-> TRUE,
          error |-> "",
          authUrl |-> [response_type |-> <<"code">>,
                       client_id |-> env.FITBIT_CLIENT_ID,
                       redirect_uri |-> encodeURIComponent(AuthRedirectUri(env.SUPABASE_URL)),
                       scope |-> encodeURIComponent(AuthScope),
                       state |-> userId],
          state |-> <<>>]

\* the first fitbit-auth, POST branch
AuthV1Initiate(userId, body) ==
    LET v == "fitbit-auth-v1" IN
    IF ~(Truthy(env.FITBIT_CLIENT_ID) /\ Truthy(env.FITBIT_CLIENT_SECRET))
      THEN InitError(v, body, userId, 500, ConfigurationError)
    ELSE IF ~Truthy(env.SUPABASE_URL)
      THEN InitError(v, body, userId, 500, ClientInitError)
    ELSE IF ~Truthy(env.SUPABASE_SERVICE_ROLE_KEY)
      THEN InitError(v, body, userId, 500, ClientKeyError)
    ELSE IF body = "invalid"
      THEN InitError(v, body, userId, 500, BodySyntaxError)
    ELSE IF body = "null"
      THEN InitError(v, body, userId, 500, DestructureError)
    ELSE IF ~Truthy(userId)
      THEN InitError(v, body, userId, 500, UserIdRequired)
    ELSE [variant |-> v, body |-> body, userId |-> userId, status |-> 200,
          success |-> TRUE,
          error |-> "",
          authUrl |-> [response_type |-> <<"code">>,
                       client_id |-> env.FITBIT_CLIENT_ID,
                       redirect_uri |-> encodeURIComponent(AuthRedirectUri(env.SUPABASE_URL)),
                       scope |-> encodeURIComponent(AuthScope),
                       state |-> userId],
          state |-> <<>>]

\* the second fitbit-auth, POST branch: the statements of the first
AuthV2Initiate(userId, body) ==
    [AuthV1Initiate(userId, body) EXCEPT !.variant = "fitbit-auth-v2"]

\* `${crypto.randomUUID()}_${userId}`
StartState(uuid, userId) == <<uuid, "_">> \o userId

\* fitbit-oauth-start; its answers carry no success field, which a reader of
\* data.success takes for false; its catch block answers every exception of
\* the body with one message
StartInitiate(userId, uuid, body) ==
    LET v == "fitbit-oauth-start" IN
    IF body # "object"
      THEN InitError(v, body, userId, 500, UrlFailed)
    ELSE IF ~Truthy(userId)
      THEN InitError(v, body, userId, 400, UserIdRequired)
    ELSE [variant |-> v, body |-> body, userId |-> userId, status |-> 200,
          success |-> FALSE,
          error |-> "",
          authUrl |-> [response_type |-> <<"code">>,
                       client_id |-> <<"23TJDY">>,
                       redirect_uri |-> formEncode(StartRedirectUri),
                       scope |-> formEncode(StartScope),
                       state |-> formEncode(StartState(uuid, userId))],
          state |-> StartState(uuid, userId)]

\* the response carries an authorization URL
HasUrl(r) == r.authUrl # NoUrl

\* the state value a browser carries to the callback from an issued URL
IssuedState(r) == decodeParam(r.authUrl.state)

\* the response of a handler to a connect request (uuid: the value
\* crypto.randomUUID() returns if it is called)
InitResponse(variant, userId, hasAuthHeader, body, uuid) ==
    CASE variant = "fitbit-auth" -> AuthInitiate(userId, hasAuthHeader, body)
      [] variant = "fitbit-auth-v1" -> AuthV1Initiate(userId, body)
      [] variant = "fitbit-auth-v2" -> AuthV2Initiate(userId, body)
      [] OTHER -> StartInitiate(userId, uuid, body)

\* the request makes the handler call crypto.randomUUID()
DrawsUuid(variant, userId, body) ==
    variant = "fitbit-oauth-start" /\ body = "object" /\ Truthy(userId)

\* a connect request that records the time of the request in the profile of the
\* user
Initiate_StoresState(variant, userId, hasAuthHeader, body) ==
    /\ variant # "fitbit-auth" => hasAuthHeader
    /\ body # "object" => userId = <<>>
    /\ DrawsUuid(variant, userId, body) => uuids < MaxUuids
    /\ initResp' = InitResponse(variant, userId, hasAuthHeader, body, Uuid(uuids + 1))
    /\ uuids' = IF DrawsUuid(variant, userId, body) THEN uuids + 1 ELSE uuids
    /\ db' = IF userId \in Keys /\ db[userId].exists /\ now < MaxClock
               THEN [db EXCEPT ![userId].updated_at = now + 1]
               ELSE db
    /\ now' = IF userId \in Keys /\ db[userId].exists /\ now < MaxClock
                THEN now + 1 ELSE now
    /\ UNCHANGED <<env, schema, issued, sync, compl, facade, lastAuth>>

\* a connect request and its response (only a body that req.json() and the
\* destructuring accept carries a userId)
Initiate(variant, userId, hasAuthHeader, body) ==
    /\ variant # "fitbit-auth" => hasAuthHeader
    /\ body # "object" => userId = <<>>
    /\ DrawsUuid(variant, userId, body) => uuids < MaxUuids
    /\ initResp' = InitResponse(variant, userId, hasAuthHeader, body, Uuid(uuids + 1))
    /\ uuids' = IF DrawsUuid(variant, userId, body) THEN uuids + 1 ELSE uuids
    /\ UNCHANGED <<env, schema, db, issued, now, sync, compl, facade, lastAuth>>

----------------------------------------------------------------------------
(* OAuth callbacks (GET): fitbit-auth, its two earlier versions (v1, v2),    *)
(* fitbit-oauth-callback                                                     *)

Completers == {"fitbit-auth", "fitbit-auth-v1", "fitbit-auth-v2", "fitbit-oauth-callback"}

MissingParameter == "Missing authorization code or state parameter"

TokenExchangeFailed == "Token exchange failed"

MethodNotAllowed == "Method not allowed"

NoCode == "No authorization code received"

ProfileFailed == "Failed to get Fitbit user profile"

NoUserId == "User ID not found in callback"

StoreError == "updateError"

\* the request URL up to the query, as the runtime hands it to the handler
PublicBase == AuthRedirectUri(<<"https", "://", HardHost>>)

InternalBase == AuthRedirectUri(<<"http", "://", HardHost>>)

RequestBases == {PublicBase, InternalBase}

\* code parameter: not in the query, present and empty, present with a value
CodeParams == {"absent", "empty", "abc"}

NoFlow == [user |-> <<>>, redirect_uri |-> <<>>, via |-> "none"]

\* error: "absent", "empty" or the text of the error parameter; hasError: the
\* parameter is there
NoReq == [code |-> "absent", state |-> <<>>, hasError |-> FALSE, error |-> "absent",
          userIdParam |-> <<>>]

\* carries: what of the provider's answer the message repeats; posted: the
\* messages the scripts of the page send to window.opener; closes: a script of
\* the page sets a timer for window.close()
NoPage == [kind |-> "none", status |-> 0, message |-> "", posted |-> {},
           closes |-> FALSE, carries |-> {}]

\* connectedAt, updatedAt: the two timestamps of the upsert payload
IdleCompl == [pc |-> "idle", variant |-> "none", req |-> NoReq, flow |-> NoFlow,
              redirectUri |-> <<>>, tokenData |-> NoTokenData, fitbitUserId |-> "null",
              target |-> <<>>, connectedAt |-> 0, updatedAt |-> 0,
              nExchange |-> 0, nUpsert |-> 0, result |-> NoPage]

\* the catch block of the fitbit-auth versions: JSON, status 500
JsonError(message) ==
    [kind |-> "json_error", status |-> 500, message |-> message, posted |-> {},
     closes |-> FALSE, carries |-> {}]

\* the catch block of fitbit-oauth-callback: a page that shows error.message
\* in a paragraph and whose script holds it in a single-quoted string, posts
\* FITBIT_AUTH_ERROR and sets the timer. The text of the message is written
\* unescaped. A <script> element in the paragraph runs; a text that swallows
\* the rest of the page, or the end tag of an element inside the string, keeps
\* the page's own script from running, and so does a quote or line break (a
\* SyntaxError). A text that ends the string and the call runs its own
\* statements after the page's postMessage, and a throw among them leaves the
\* timer unset. The page closes itself when it sets its timer or an element
\* of the text calls window.close()
ErrorPage(message, text) ==
    LET html == Markup(text)
        runs == ~html.element /\ ~html.swallows /\ text # "quote"
        own == IF ~runs THEN {}
               ELSE IF text \in {"script", "script_thrower"}
                 THEN {"FITBIT_AUTH_ERROR", "FITBIT_AUTH_SUCCESS"}
               ELSE {"FITBIT_AUTH_ERROR"}
        timer == runs /\ text \notin {"thrower", "script_thrower"}
    IN  [kind |-> "error_page", status |-> 200, message |-> message,
         posted |-> html.posts \cup own,
         closes |-> timer \/ html.closes, carries |-> {}]

\* the page of fitbit-oauth-callback for a callback with an error parameter:
\* the parameter is written unescaped into a paragraph, the script of the page
\* only sets the timer, and does not run when the text swallows it
DeniedPage(text) ==
    [kind |-> "error_page", status |-> 200, message |-> "Failed to connect to Fitbit",
     posted |-> Markup(text).posts,
     closes |-> ~Markup(text).swallows \/ Markup(text).closes, carries |-> {}]

\* the success page of each handler
SuccessPage(variant) ==
    [kind |-> "success_page", status |-> 200, message |-> "",
     posted |-> IF variant = "fitbit-oauth-callback" THEN {"FITBIT_AUTH_SUCCESS"}
                ELSE {},
     closes |-> TRUE, carries |-> {}]

\* the catch block of each handler (text: the text of error.message)
Failure(variant, message, text) ==
    IF variant = "fitbit-oauth-callback" THEN ErrorPage(message, text)
    ELSE JsonError(message)

\* `Token exchange failed: ...`: what each handler puts after the colon
ExchangeDiagnostics(variant) ==
    CASE variant = "fitbit-auth" -> {"status", "body"}
      [] variant = "fitbit-auth-v2" -> {"status", "body"}
      [] variant = "fitbit-auth-v1" -> {"status"}
      [] OTHER -> {"body"}

\* the failure a handler answers when the token endpoint rejects the code
\* (text: the text of the body of the rejection)
ExchangeFailure(variant, text) ==
    [Failure(variant, TokenExchangeFailed, text) EXCEPT
        !.carries = ExchangeDiagnostics(variant)]

\* searchParams.get('code') is truthy
HasCodeValue(code) == code = "abc"

\* searchParams.has('code')
HasCodeParam(code) == code # "absent"

\* the issued URL whose state value the callback carries, if there is one
FlowOf(state) ==
    IF HasUrl(initResp) /\ Truthy(state) /\ state = IssuedState(initResp)
      THEN [user |-> initResp.userId,
            redirect_uri |-> decodeParam(initResp.authUrl.redirect_uri),
            via |-> initResp.variant]
      ELSE NoFlow

\* fitbit-auth up to the token exchange
AuthCallbackStart(me, req) ==
    IF ~(Truthy(env.FITBIT_CLIENT_ID) /\ Truthy(env.FITBIT_CLIENT_SECRET)
         /\ Truthy(env.SUPABASE_URL) /\ Truthy(env.SUPABASE_SERVICE_ROLE_KEY))
      THEN [me EXCEPT !.pc = "done", !.result = JsonError(MissingEnv)]
    ELSE IF ~HasCodeParam(req.code)
      THEN [me EXCEPT !.pc = "done",
                      !.result = [JsonError(MethodNotAllowed) EXCEPT !.status = 405]]
    ELSE IF ~HasCodeValue(req.code) \/ ~Truthy(req.state)
      THEN [me EXCEPT !.pc = "done", !.result = JsonError(MissingParameter)]
    ELSE [me EXCEPT !.pc = "exchange", !.target = req.state,
                    !.redirectUri = AuthRedirectUri(env.SUPABASE_URL)]

\* the second fitbit-auth up to the token exchange
AuthV2CallbackStart(me, req) ==
    IF ~(Truthy(env.FITBIT_CLIENT_ID) /\ Truthy(env.FITBIT_CLIENT_SECRET))
      THEN [me EXCEPT !.pc = "done", !.result = JsonError(ConfigurationError)]
    ELSE IF ~Truthy(env.SUPABASE_URL)
      THEN [me EXCEPT !.pc = "done", !.result = JsonError(ClientInitError)]
    ELSE IF ~Truthy(env.SUPABASE_SERVICE_ROLE_KEY)
      THEN [me EXCEPT !.pc = "done", !.result = JsonError(ClientKeyError)]
    ELSE IF ~HasCodeParam(req.code)
      THEN [me EXCEPT !.pc = "done",
                      !.result = [JsonError(MethodNotAllowed) EXCEPT !.status = 405]]
    ELSE IF ~HasCodeValue(req.code) \/ ~Truthy(req.state)
      THEN [me EXCEPT !.pc = "done", !.result = JsonError(MissingParameter)]
    ELSE [me EXCEPT !.pc = "exchange", !.target = req.state,
                    !.redirectUri = AuthRedirectUri(env.SUPABASE_URL)]

\* the first fitbit-auth up to the token exchange
AuthV1CallbackStart(me, req, base) ==
    IF ~(Truthy(env.FITBIT_CLIENT_ID) /\ Truthy(env.FITBIT_CLIENT_SECRET))
      THEN [me EXCEPT !.pc = "done", !.result = JsonError(ConfigurationError)]
    ELSE IF ~Truthy(env.SUPABASE_URL)
      THEN [me EXCEPT !.pc = "done", !.result = JsonError(ClientInitError)]
    ELSE IF ~Truthy(env.SUPABASE_SERVICE_ROLE_KEY)
      THEN [me EXCEPT !.pc = "done", !.result = JsonError(ClientKeyError)]
    ELSE IF ~HasCodeParam(req.code)
      THEN [me EXCEPT !.pc = "done", !.result = JsonError(MethodNotAllowed)]
    ELSE [me EXCEPT !.pc = "exchange", !.target = req.state, !.redirectUri = base]

\* fitbit-oauth-callback up to the token exchange (`if (error)`: the text of
\* the parameter is there and not empty)
OAuthCallbackStart(me, req) ==
    IF req.error \notin {"absent", "empty"}
      THEN [me EXCEPT !.pc = "done", !.result = DeniedPage(req.error)]
    ELSE IF ~HasCodeValue(req.code)
      THEN [me EXCEPT !.pc = "done", !.result = ErrorPage(NoCode, "plain")]
    ELSE IF ~(Truthy(env.FITBIT_CLIENT_ID) /\ Truthy(env.FITBIT_CLIENT_SECRET)
              /\ Truthy(env.FITBIT_REDIRECT_URI) /\ Truthy(env.SUPABASE_URL)
              /\ Truthy(env.SUPABASE_SERVICE_ROLE_KEY))
      THEN [me EXCEPT !.pc = "done", !.result = ErrorPage(MissingEnv, "plain")]
    ELSE [me EXCEPT !.pc = "exchange", !.target = req.userIdParam,
                    !.redirectUri = env.FITBIT_REDIRECT_URI]

\* a callback request reaches its handler, which runs up to the token exchange
\* (error: "absent", "empty" or the text of the error parameter; only
\* fitbit-oauth-callback reads the parameters error and user_id, only the first
\* fitbit-auth the address of the request)
ComplArrive(c, variant, code, state, error, userIdParam, base) ==
    /\ compl[c].pc = "idle"
    /\ variant # "fitbit-oauth-callback" => userIdParam = <<>>
    /\ variant # "fitbit-oauth-callback" => error \in {"absent", "plain"}
    /\ variant # "fitbit-auth-v1" => base = PublicBase
    /\ LET req == [code |-> code, state |-> state, hasError |-> error # "absent",
                   error |-> error, userIdParam |-> userIdParam]
           me == [IdleCompl EXCEPT !.variant = variant, !.req = req,
                                   !.flow = FlowOf(state)]
       IN  compl' = [compl EXCEPT ![c] =
              CASE variant = "fitbit-auth" -> AuthCallbackStart(me, req)
                [] variant = "fitbit-auth-v1" -> AuthV1CallbackStart(me, req, base)
                [] variant = "fitbit-auth-v2" -> AuthV2CallbackStart(me, req)
                [] OTHER -> OAuthCallbackStart(me, req)]

\* a callback request arrives
ComplStart(c, variant, code, state, error, userIdParam, base) ==
    /\ ComplArrive(c, variant, code, state, error, userIdParam, base)
    /\ UNCHANGED <<env, schema, db, issued, now, sync, initResp, uuids, facade, lastAuth>>

\* the token endpoint answers the authorization_code grant (it accepts no empty
\* code); the fitbit-auth versions then build the payload of the upsert, reading
\* the clock twice, d1 ms after the reading before it and d2 ms after that
\* (text: the text of the body of a rejection)
ComplExchange(c, ok, fid, text, d1, d2) ==
    /\ compl[c].pc = "exchange"
    /\ ok => CanIssue /\ HasCodeValue(compl[c].req.code)
    /\ (ok \/ compl[c].variant # "fitbit-oauth-callback") => text = "plain"
    /\ IF ok /\ compl[c].variant # "fitbit-oauth-callback"
         THEN CanRead(now + d1 + d2) ELSE d1 = 0 /\ d2 = 0
    /\ LET me == [compl[c] EXCEPT !.nExchange = @ + 1]
       IN  compl' = [compl EXCEPT ![c] =
              IF ~ok
                THEN [me EXCEPT !.pc = "done",
                                !.result = ExchangeFailure(me.variant, text)]
              ELSE IF me.variant = "fitbit-oauth-callback"
                THEN [me EXCEPT !.pc = "profile", !.tokenData = TokenData(issued + 1, fid)]
              ELSE [me EXCEPT !.pc = "upsert", !.tokenData = TokenData(issued + 1, fid),
                              !.fitbitUserId = fid,
                              !.connectedAt = now + d1,
                              !.updatedAt = now + d1 + d2]]
    /\ issued' = IF ok THEN issued + 1 ELSE issued
    /\ now' = now + d1 + d2
    /\ UNCHANGED <<env, schema, db, sync, initResp, uuids, facade, lastAuth>>

\* fitbit-oauth-callback: GET /1/user/-/profile.json (ok: answered 2xx, with
\* user.encodedId = eid), then the user_id parameter and the payload of the
\* upsert with its two readings of the clock
ComplProfile(c, ok, eid, d1, d2) ==
    /\ compl[c].pc = "profile"
    /\ IF ok /\ Truthy(compl[c].req.userIdParam)
         THEN CanRead(now + d1 + d2) ELSE d1 = 0 /\ d2 = 0
    /\ LET me == compl[c]
       IN  compl' = [compl EXCEPT ![c] =
              IF ~ok
                THEN [me EXCEPT !.pc = "done", !.result = ErrorPage(ProfileFailed, "plain")]
              ELSE IF ~Truthy(me.req.userIdParam)
                THEN [me EXCEPT !.pc = "done", !.result = ErrorPage(NoUserId, "plain")]
              ELSE [me EXCEPT !.pc = "upsert", !.fitbitUserId = eid,
                              !.connectedAt = now + d1,
                              !.updatedAt = now + d1 + d2]]
    /\ now' = now + d1 + d2
    /\ UNCHANGED <<env, schema, db, issued, sync, initResp, uuids, facade, lastAuth>>

\* the row the upsert of an invocation writes
UpsertPayload(me) ==
    UpsertedRow(me.tokenData, me.fitbitUserId, me.connectedAt, me.updatedAt)

\* the key constraints table profiles can have, which the sources do not
\* show: user_id is its primary key; another column is, and user_id is unique;
\* another column is, and user_id carries no constraint
Schemas == {"primary", "unique", "plain"}

\* the column an upsert resolves conflicts on: the fitbit-auth versions name
\* user_id (onConflict), fitbit-oauth-callback names none, which is the
\* primary key
ConflictTarget(variant) ==
    IF variant = "fitbit-oauth-callback" THEN "primary key" ELSE "user_id"

\* what the store does with the upsert of a row for a user id that has the
\* rows `row`: ON CONFLICT (user_id) needs a unique constraint on user_id; a
\* payload without the primary key column is an INSERT, which a unique
\* constraint on user_id rejects when the user id has a row
UpsertOutcome(variant, row) ==
    IF ConflictTarget(variant) = "user_id"
      THEN CASE schema = "plain" -> "rejected"
             [] row.exists -> "replaced"
             [] OTHER -> "inserted"
      ELSE CASE schema = "primary" /\ row.exists -> "replaced"
             [] schema = "unique" /\ row.exists -> "rejected"
             [] OTHER -> "inserted"

\* the rows of a user id after an upsert with the payload `new`
Upserted(variant, row, new) ==
    IF UpsertOutcome(variant, row) = "inserted" /\ row.exists
      THEN [new EXCEPT !.more = row.more + 1]
      ELSE new

\* the upsert of the profile takes effect with the payload built before it was
\* sent, and the page answers the callback (writeOk = FALSE: the store answers
\* an error, of which text is the text of the message)
ComplUpsert(c, writeOk, text) ==
    /\ compl[c].pc = "upsert"
    /\ writeOk => /\ compl[c].target \in Keys
                  /\ UpsertOutcome(compl[c].variant, db[compl[c].target]) # "rejected"
    /\ (writeOk \/ compl[c].variant # "fitbit-oauth-callback") => text = "plain"
    /\ LET me == [compl[c] EXCEPT !.nUpsert = @ + 1]
           k == me.target
       IN  /\ db' = IF writeOk
                      THEN [db EXCEPT ![k] = Upserted(me.variant, db[k], UpsertPayload(me))]
                      ELSE db
           /\ lastAuth' = IF writeOk THEN [lastAuth EXCEPT ![k] = "completion"]
                           ELSE lastAuth
           /\ compl' = [compl EXCEPT ![c] =
                 IF writeOk
                   THEN [me EXCEPT !.pc = "done", !.result = SuccessPage(me.variant)]
                   ELSE [me EXCEPT !.pc = "done",
                                   !.result = Failure(me.variant, StoreError, text)]]
    /\ UNCHANGED <<env, schema, issued, now, sync, initResp, uuids, facade>>

\* the page is transmitted and the invocation ends
ComplRespond(c) ==
    /\ compl[c].pc = "done"
    /\ compl' = [compl EXCEPT ![c] = IdleCompl]
    /\ UNCHANGED <<env, schema, db, issued, now, sync, initResp, uuids, facade, lastAuth>>

----------------------------------------------------------------------------
(* FitbitIntegration.tsx *)

\* checkFitbitConnection up to the await of the select
checkFitbitConnection(f) ==
    IF ~Truthy(f.user) THEN f
    ELSE [f EXCEPT !.loading = TRUE, !.reads = @ (+) SetToBag({"sent"})]

\* useEffect(() => { checkFitbitConnection() }, [user]) after the first render
MountEffect ==
    /\ ~facade.mounted
    /\ facade' = [checkFitbitConnection(facade) EXCEPT !.mounted = TRUE]
    /\ UNCHANGED <<env, schema, db, issued, now, sync, compl, initResp, uuids, lastAuth>>

\* { data } of the select with `.single()` on the rows of a user id: PGRST116
\* and no data unless there is one row
ReadData(row) ==
    IF ~NotSingle(row) /\ row.fitbit_access_token # NullTok THEN "data" ELSE "nodata"

\* the store answers a select of checkFitbitConnection (readOk = FALSE: with an
\* error other than PGRST116, or the request fails)
CheckAnswered(readOk) ==
    /\ BagIn("sent", facade.reads)
    /\ facade' = [facade EXCEPT
          !.reads = (@ (-) SetToBag({"sent"}))
                    (+) SetToBag({IF readOk THEN ReadData(db[facade.user]) ELSE "error"})]
    /\ UNCHANGED <<env, schema, db, issued, now, sync, compl, initResp, uuids, lastAuth>>

\* checkFitbitConnection after the await, for the answer it holds
Checked(f, answer) ==
    LET g == [f EXCEPT !.loading = FALSE]
    IN  CASE answer = "data" -> [g EXCEPT !.isConnected = TRUE, !.fitbitProfile = "data"]
          [] answer = "nodata" -> [g EXCEPT !.isConnected = FALSE,
                                            !.fitbitProfile = "null"]
          [] OTHER -> g

\* a call of checkFitbitConnection resumes with its answer
CheckResumed(answer) ==
    /\ answer # "sent"
    /\ BagIn(answer, facade.reads)
    /\ facade' = [Checked(facade, answer) EXCEPT !.reads = @ (-) SetToBag({answer})]
    /\ UNCHANGED <<env, schema, db, issued, now, sync, compl, initResp, uuids, lastAuth>>

\* an update of disconnectFitbit in flight: sent with the stamp of its payload,
\* or answered
Sent(t) == [pc |-> "sent", stamp |-> t]

Answered(ok) == [pc |-> IF ok THEN "ok" ELSE "error", stamp |-> 0]

\* disconnectFitbit up to the await of the update, whose payload is stamped d
\* ms after the reading of the clock before it (without a user it returns)
disconnectFitbit(d) ==
    /\ Truthy(facade.user)
    /\ CanRead(now + d)
    /\ facade' = [facade EXCEPT !.discs = @ (+) SetToBag({Sent(now + d)})]
    /\ now' = now + d
    /\ UNCHANGED <<env, schema, db, issued, sync, compl, initResp, uuids, lastAuth>>

\* the button Disconnect, which the component renders while it is connected
\* and not loading, clicked while fewer than cap updates are in flight
DisconnectClick(d, cap) ==
    /\ ~facade.loading /\ facade.isConnected
    /\ BagCardinality(facade.discs) < cap
    /\ disconnectFitbit(d)

\* the store answers an update of disconnectFitbit: accepted, it clears the four
\* fields of the rows of the user id and writes the stamp of the payload
DisconnectAnswered(t, writeOk) ==
    /\ BagIn(Sent(t), facade.discs)
    /\ LET u == facade.user
           hit == writeOk /\ db[u].exists
       IN  /\ db' = IF hit THEN [db EXCEPT ![u] = DisconnectedRow(db[u], t)] ELSE db
           /\ lastAuth' = IF hit THEN [lastAuth EXCEPT ![u] = "disconnect"] ELSE lastAuth
           /\ facade' = [facade EXCEPT
                 !.discs = (@ (-) SetToBag({Sent(t)})) (+) SetToBag({Answered(writeOk)})]
    /\ UNCHANGED <<env, schema, issued, now, sync, compl, initResp, uuids>>

\* a disconnect that shows not-connected whatever the update returned
Disconnected_Optimistic(f, ok) ==
    [f EXCEPT !.isConnected = FALSE, !.fitbitProfile = "null",
              !.toast = IF ok THEN "Fitbit Disconnected" ELSE "Error"]

\* disconnectFitbit after the await (ok = FALSE: the answer holds an error, or
\* the request failed)
Disconnected(f, ok) ==
    IF ok
      THEN [f EXCEPT !.isConnected = FALSE, !.fitbitProfile = "null",
                     !.toast = "Fitbit Disconnected"]
      ELSE [f EXCEPT !.toast = "Error"]

\* a call of disconnectFitbit resumes with its answer
DisconnectResumed(ok) ==
    /\ BagIn(Answered(ok), facade.discs)
    /\ facade' = [Disconnected(facade, ok) EXCEPT !.discs = @ (-) SetToBag({Answered(ok)})]
    /\ UNCHANGED <<env, schema, db, issued, now, sync, compl, initResp, uuids, lastAuth>>

\* testFitbitConnection up to the await of fetch: it sends the request for a
\* lunch of user.id, which invocation s of fitbit-log-meal will serve, and
\* sets no state
testFitbitConnection(s) ==
    /\ Truthy(facade.user) /\ facade.isConnected
    /\ s \notin facade.tests /\ sync[s].pc = "idle"
    /\ facade' = [facade EXCEPT !.tests = @ \cup {s}]
    /\ UNCHANGED <<env, schema, db, issued, now, sync, compl, initResp, uuids, lastAuth>>

\* the button Test Connection, rendered as the button Disconnect is
TestClick(s) ==
    /\ ~facade.loading /\ facade.isConnected
    /\ testFitbitConnection(s)

\* the request of testFitbitConnection reaches fitbit-log-meal, which reads
\* the profile then
TestArrive(s, readOk) ==
    /\ s \in facade.tests /\ sync[s].pc = "idle"
    /\ SyncArrive(s, "object", facade.user, "lunch", readOk)
    /\ UNCHANGED <<env, schema, db, issued, now, compl, initResp, uuids, facade, lastAuth>>

\* testFitbitConnection after the await, with the response of invocation s
\* (fetchOk = FALSE: fetch or response.json() rejects)
TestAnswered(s, fetchOk) ==
    /\ s \in facade.tests
    /\ sync[s].pc = "done"
    /\ facade' = [facade EXCEPT
          !.tests = @ \ {s},
          !.toast = IF fetchOk /\ sync[s].result.success
                      THEN "Connection Test Successful"
                      ELSE "Connection Test Failed"]
    /\ sync' = [sync EXCEPT ![s] = IdleSync]
    /\ UNCHANGED <<env, schema, db, issued, now, compl, initResp, uuids, lastAuth>>

\* setTimeout(..., 300000): the delay of the cleanup timer
CleanupDelayMs == 300000

\* popup.closed, for the popup of attempt a
PopupClosed(f, a) == ~(f.win.open /\ f.win.id = f.attempts[a].popup)

\* popup.close(), for the popup of attempt a
ClosePopup(f, a) ==
    IF PopupClosed(f, a) THEN f.win ELSE [f.win EXCEPT !.open = FALSE, !.closing = FALSE]

\* the first call of setIsConnecting(false) by the closures of an attempt
ExitBy(att, how) == IF att.exit = "none" THEN how ELSE att.exit

\* connectToFitbit up to the await of fetch (the button is rendered while the
\* component is not loading and not connected, and is disabled while
\* isConnecting)
ConnectClick ==
    /\ ~facade.loading /\ ~facade.isConnected /\ ~facade.isConnecting
    /\ facade.n < MaxAttempts
    /\ facade' =
          IF ~Truthy(facade.user)
            THEN [facade EXCEPT !.toast = "Authentication Required"]
            ELSE [facade EXCEPT !.isConnecting = TRUE, !.n = @ + 1,
                                !.attempts[facade.n + 1].pc = "fetching"]
    /\ UNCHANGED <<env, schema, db, issued, now, sync, compl, initResp, uuids, lastAuth>>

\* the catch block of connectToFitbit
ConnectFailed(f, a) ==
    [f EXCEPT !.toast = "Connection Failed", !.isConnecting = FALSE,
              !.attempts[a].pc = "failed",
              !.attempts[a].exit = ExitBy(f.attempts[a], "failed")]

\* the callback of the cleanup timer
CleanedUp(f, a) ==
    [f EXCEPT !.attempts[a].timer = 0,
              !.attempts[a].interval = FALSE,
              !.attempts[a].listener = FALSE,
              !.win = ClosePopup(f, a),
              !.isConnecting = FALSE,
              !.attempts[a].exit = ExitBy(f.attempts[a], "timeout")]

\* connectToFitbit after the fetch: the response of fitbit-auth, window.open,
\* setInterval, addEventListener and setTimeout (fetchOk = FALSE: fetch or
\* response.json() rejects; blocked: window.open returns null)
ConnectOpen(a, fetchOk, blocked) ==
    /\ facade.attempts[a].pc = "fetching"
    /\ LET data == AuthInitiate(facade.user, TRUE, "object")
           opened == IF facade.win.open
                       THEN [facade.win EXCEPT !.page = "consent", !.closing = FALSE,
                                               !.posted = {}]
                       ELSE [id |-> a, open |-> TRUE, page |-> "consent",
                             closing |-> FALSE, posted |-> {}]
       IN  /\ initResp' = IF fetchOk THEN data ELSE initResp
           /\ facade' =
                 IF ~fetchOk \/ ~data.success \/ blocked
                   THEN ConnectFailed(facade, a)
                   ELSE [facade EXCEPT !.win = opened,
                                       !.attempts[a] =
                                          [pc |-> "open", popup |-> opened.id,
                                           interval |-> TRUE, listener |-> TRUE,
                                           timer |-> CleanupDelayMs,
                                           exit |-> facade.attempts[a].exit]]
    /\ UNCHANGED <<env, schema, db, issued, now, sync, compl, uuids, lastAuth>>

\* the user answers the consent page and the provider redirects the popup to
\* the callback handler the deployment serves (granted: with a code and the
\* state of the URL; otherwise with an error parameter); the redirect URI of
\* the URL has no query, so the request carries no userId parameter
PopupConsent(c, variant, granted) ==
    /\ facade.win.open /\ facade.win.page = "consent"
    /\ HasUrl(initResp)
    /\ ComplArrive(c, variant, IF granted THEN "abc" ELSE "absent",
                   IssuedState(initResp), IF granted THEN "absent" ELSE "plain",
                   <<>>, PublicBase)
    /\ facade' = [facade EXCEPT !.win.page = "loading"]
    /\ UNCHANGED <<env, schema, db, issued, now, sync, initResp, uuids, lastAuth>>

\* the script of a response page sets a timer for window.close()
SelfClosing(page) == page.closes

\* the popup shows the response of the callback and runs its script
PopupLoad(c) ==
    /\ compl[c].pc = "done"
    /\ facade.win.open /\ facade.win.page = "loading"
    /\ LET page == compl[c].result
       IN  facade' = [facade EXCEPT
              !.win = [@ EXCEPT !.page = page.kind, !.closing = SelfClosing(page),
                                !.posted = page.posted],
              !.inbox = @ \cup page.posted]
    /\ compl' = [compl EXCEPT ![c] = IdleCompl]
    /\ UNCHANGED <<env, schema, db, issued, now, sync, initResp, uuids, lastAuth>>

\* the response of a callback whose window is gone or was navigated away
PopupGone(c) ==
    /\ ~(facade.win.open /\ facade.win.page = "loading")
    /\ ComplRespond(c)

\* window.close() of a response page, when its timer fires
PopupSelfClose ==
    /\ facade.win.open /\ facade.win.closing
    /\ facade' = [facade EXCEPT !.win.open = FALSE, !.win.closing = FALSE]
    /\ UNCHANGED <<env, schema, db, issued, now, sync, compl, initResp, uuids, lastAuth>>

\* the user closes the popup window
PopupUserClose ==
    /\ facade.win.open
    /\ facade' = [facade EXCEPT !.win.open = FALSE, !.win.closing = FALSE]
    /\ UNCHANGED <<env, schema, db, issued, now, sync, compl, initResp, uuids, lastAuth>>

\* checkClosed: a tick of the interval that finds the popup closed and sets
\* the timer of 1 s for checkFitbitConnection
IntervalTick(a) ==
    /\ facade.attempts[a].interval
    /\ PopupClosed(facade, a)
    /\ facade' = [facade EXCEPT !.attempts[a].interval = FALSE,
                                !.isConnecting = FALSE,
                                !.attempts[a].exit = ExitBy(facade.attempts[a], "closed"),
                                !.checkTimers = @ + 1]
    /\ UNCHANGED <<env, schema, db, issued, now, sync, compl, initResp, uuids, lastAuth>>

\* messageListener of attempt a, run on an event of the given type
Listened(f, a, type) ==
    IF f.attempts[a].listener /\ type = "FITBIT_AUTH_SUCCESS"
      THEN [checkFitbitConnection(
               [f EXCEPT !.attempts[a].interval = FALSE,
                         !.attempts[a].listener = FALSE,
                         !.win = ClosePopup(f, a),
                         !.isConnecting = FALSE,
                         !.attempts[a].exit = ExitBy(f.attempts[a], "message")])
            EXCEPT !.toast = "Fitbit Connected!"]
      ELSE f

RECURSIVE Dispatched(_, _, _)
\* the listeners of attempts 1 .. a, run in the order of their registration
Dispatched(f, a, type) ==
    IF a = 0 THEN f ELSE Listened(Dispatched(f, a - 1, type), a, type)

\* a message event on the window of the component
MessageEvent(type) ==
    /\ type \in facade.inbox
    /\ facade' = Dispatched([facade EXCEPT !.inbox = @ \ {type}], MaxAttempts, type)
    /\ UNCHANGED <<env, schema, db, issued, now, sync, compl, initResp, uuids, lastAuth>>

\* a window other than the popup posts a message to the window of the
\* component while a listener is registered (the listener reads neither
\* event.origin nor event.source)
ForeignMessage(type) ==
    /\ \E a \in Attempts : facade.attempts[a].listener
    /\ type \notin facade.inbox
    /\ facade' = [facade EXCEPT !.inbox = @ \cup {type}]
    /\ UNCHANGED <<env, schema, db, issued, now, sync, compl, initResp, uuids, lastAuth>>

\* the cleanup timer of attempt a fires (timers of equal delay fire in the
\* order in which they were set)
CleanupTimeout(a) ==
    /\ facade.attempts[a].timer # 0
    /\ \A b \in Attempts : b < a => facade.attempts[b].timer = 0
    /\ facade' = CleanedUp(facade, a)
    /\ UNCHANGED <<env, schema, db, issued, now, sync, compl, initResp, uuids, lastAuth>>

\* a timer of 1 s that the interval set fires and calls checkFitbitConnection
DelayedCheck ==
    /\ facade.checkTimers > 0
    /\ facade' = checkFitbitConnection([facade EXCEPT !.checkTimers = @ - 1])
    /\ UNCHANGED <<env, schema, db, issued, now, sync, compl, initResp, uuids, lastAuth>>

\* a step in which the store answers a select of checkFitbitConnection with
\* the given answer
StatusAnswered(answer) ==
    /\ CopiesIn("sent", facade'.reads) < CopiesIn("sent", facade.reads)
    /\ CopiesIn(answer, facade'.reads) > CopiesIn(answer, facade.reads)

\* a step in which a call of checkFitbitConnection resumes with the given answer
StatusShown(answer) ==
    CopiesIn(answer, facade'.reads) < CopiesIn(answer, facade.reads)

\* a step in which disconnectFitbit sends its update with stamp t
UpdateSent(t) ==
    CopiesIn(Sent(t), facade'.discs) > CopiesIn(Sent(t), facade.discs)

\* a step in which the store answers the update of stamp t (ok: accepted)
UpdateAnswered(t, ok) ==
    /\ CopiesIn(Sent(t), facade'.discs) < CopiesIn(Sent(t), facade.discs)
    /\ CopiesIn(Answered(ok), facade'.discs) > CopiesIn(Answered(ok), facade.discs)

\* a step in which a call of disconnectFitbit resumes with the given answer
DisconnectShown(ok) ==
    CopiesIn(Answered(ok), facade'.discs) < CopiesIn(Answered(ok), facade.discs)

----------------------------------------------------------------------------
(* The system *)

\* the repository holds no definition of table profiles. The handlers select
\* with `.single()` and upsert with onConflict 'user_id' as over a table with a
\* key on user_id; under "unique" the behaviours are among those under
\* "primary", where the store may reject any write
InitWith(envs, users, schemas) ==
    /\ env \in envs
    /\ schema \in schemas
    /\ db = [k \in Keys |-> IF k = <<"u1">> THEN BlankRow ELSE NoRow]
    /\ issued = 0
    /\ now = 1
    /\ sync = [s \in Syncs |-> IdleSync]
    /\ compl = [c \in Compls |-> IdleCompl]
    /\ initResp = NoInit
    /\ uuids = 0
    /\ facade \in {NewFacade(u) : u \in users}
    /\ lastAuth = [k \in Keys |-> "none"]

\* readings of the clock that all fall in one millisecond
SameMs == {0}

SyncNext(S, U, mealTypes, D) ==
    \/ \E s \in S, body \in SyncBodies, u \in U, mt \in mealTypes, readOk \in BOOLEAN :
          SyncStart(s, body, u, mt, readOk)
    \/ \E s \in S, status \in WriteStatuses, logId \in LogIds :
          SyncFirstWrite(s, status, logId)
    \/ \E s \in S, ok \in BOOLEAN, d \in D : SyncRefresh(s, ok, d)
    \/ \E s \in S, writeOk \in BOOLEAN : SyncUpdate(s, writeOk)
    \/ \E s \in S, status \in WriteStatuses, logId \in LogIds :
          SyncRetry(s, status, logId)
    \/ \E s \in S : SyncRespond(s)

\* what follows the arrival of a callback (T: the texts of the error messages,
\* E: the ids of the profile answers)
ComplSteps(C, D, T, E) ==
    \/ \E c \in C, ok \in BOOLEAN, fid \in FitbitIds, text \in T, d1 \in D, d2 \in D :
          ComplExchange(c, ok, fid, text, d1, d2)
    \/ \E c \in C, ok \in BOOLEAN, eid \in E, d1 \in D, d2 \in D :
          ComplProfile(c, ok, eid, d1, d2)
    \/ \E c \in C, writeOk \in BOOLEAN, text \in T : ComplUpsert(c, writeOk, text)
    \/ \E c \in C : ComplRespond(c)

\* callbacks with every form of request the handlers can receive: state and
\* user_id absent, the id of a user, or for the state a value no connect
\* request produced; the error parameter absent, empty or a text; and, for
\* fitbit-oauth-callback, which answers an error parameter before it looks at
\* anything else, each of the texts with each form of the code
AnyCallback(C) ==
    \/ \E c \in C, v \in Completers, code \in CodeParams,
          st \in {<<"u1">>, <<>>, ForgedState},
          e \in {"absent", "empty", "plain"}, up \in {<<"u1">>, <<>>},
          b \in RequestBases :
           ComplStart(c, v, code, st, e, up, b)
    \/ \E c \in C, code \in CodeParams, e \in Texts :
           ComplStart(c, "fitbit-oauth-callback", code, <<"u1">>, e, <<"u1">>, PublicBase)

\* callbacks of a consent that was granted, for the users U of the application
GrantedCallback(C, U) ==
    \E c \in C, v \in Completers, u \in U :
        ComplStart(c, v, "abc", u, "absent",
                   IF v = "fitbit-oauth-callback" THEN u ELSE <<>>, PublicBase)

\* callbacks that carry a code and the state value of the URL issued last,
\* with the id of a user of U in the user_id parameter or without it
FlowCallback(C, U) ==
    \E c \in C, v \in Completers, up \in U \cup {<<>>}, b \in RequestBases :
        /\ HasUrl(initResp)
        /\ ComplStart(c, v, "abc", IssuedState(initResp), "absent", up, b)

\* connect requests for the users U, or without a user id
InitiateNext(U) ==
    \E v \in Initiators, u \in U \cup {<<>>}, h \in BOOLEAN, body \in Bodies :
        Initiate(v, u, h, body)

\* event.data.type of the messages the window of the component receives
MessageTypes == {"FITBIT_AUTH_SUCCESS", "FITBIT_AUTH_ERROR"}

\* the stamps an update of disconnectFitbit can carry
Stamps == 0 .. MaxClock

\* the answers a select of checkFitbitConnection can bring
Answers == {"data", "nodata", "error"}

\* the status reads of the component
ChecksNext ==
    \/ MountEffect
    \/ \E readOk \in BOOLEAN : CheckAnswered(readOk)
    \/ \E answer \in Answers : CheckResumed(answer)

\* the updates of disconnectFitbit, at most cap of them in flight
DisconnectsNext(D, cap) ==
    \/ \E d \in D : DisconnectClick(d, cap)
    \/ \E t \in Stamps, writeOk \in BOOLEAN : DisconnectAnswered(t, writeOk)
    \/ \E ok \in BOOLEAN : DisconnectResumed(ok)

\* the component outside its connect flow: the effect of the first render and
\* the two buttons it shows while connected (S: the relay invocations that
\* serve testFitbitConnection)
FacadeNext(D, S) ==
    \/ ChecksNext
    \/ DisconnectsNext(D, MaxPending)
    \/ \E s \in S : TestClick(s)
    \/ \E s \in S, readOk \in BOOLEAN : TestArrive(s, readOk)
    \/ \E s \in S, fetchOk \in BOOLEAN : TestAnswered(s, fetchOk)

\* the relay and the life of the credential record of u1: a relay invocation,
\* the callbacks of granted consents, the component's status read and its
\* button Disconnect (the request of the button Test Connection is one of the
\* relay invocations)
Init == InitWith({EnvGood, EnvNoClient}, {<<"u1">>}, {"primary"})

Next == SyncNext({"s1"}, Users, {"lunch"}, Ticks) \/ GrantedCallback({"c1"}, {<<"u1">>})
        \/ ComplSteps({"c1"}, SameMs, Inert, FitbitIds)
        \/ ChecksNext \/ DisconnectsNext(SameMs, 1)

Spec == Init /\ [][Next]_vars

\* the callback handlers under every request
InitAuth == InitWith(Envs, {<<"u1">>}, {"primary"})

NextAuth == AnyCallback({"c1"}) \/ ComplSteps({"c1"}, Ticks, Texts, EncodedIds)

SpecAuth == InitAuth /\ [][NextAuth]_vars

\* the handshake: a connect request, then the callback that carries its state
NextFlow == InitiateNext({<<"u1">>}) \/ FlowCallback({"c1"}, {<<"u1">>})
            \/ ComplSteps({"c1"}, SameMs, Inert, FitbitIds)

SpecFlow == InitAuth /\ [][NextFlow]_vars

\* connect requests of every form while a callback and a relay invocation for
\* u1 are in progress
NextInitiate ==
    \/ InitiateNext(Users)
    \/ ComplStart("c1", "fitbit-auth", "abc", <<"u1">>, "absent", <<>>, PublicBase)
    \/ ComplExchange("c1", TRUE, "F1", "plain", 0, 0)
    \/ \E writeOk \in BOOLEAN : ComplUpsert("c1", writeOk, "plain")
    \/ ComplRespond("c1")
    \/ SyncStart("s1", "object", <<"u1">>, "lunch", TRUE)
    \/ \E status \in {200, 500} : SyncFirstWrite("s1", status, "42")
    \/ SyncRespond("s1")

SpecInitiate == InitAuth /\ [][NextInitiate]_vars

\* the row of a user who connected before the behaviour starts (pair number 0)
ConnectedRow == UpsertedRow(TokenData(0, "F1"), "F1", 1, 1)

\* two relay invocations at a time, for users of whom u1 is connected
InitRace ==
    /\ env = EnvGood
    /\ schema = "primary"
    /\ db = [k \in Keys |-> IF k = <<"u1">> THEN ConnectedRow ELSE NoRow]
    /\ issued = 0
    /\ now = ConnectedRow.updated_at
    /\ sync = [s \in Syncs |-> IdleSync]
    /\ compl = [c \in Compls |-> IdleCompl]
    /\ initResp = NoInit
    /\ uuids = 0
    /\ facade = NewFacade(<<"u1">>)
    /\ lastAuth = [k \in Keys |-> IF k = <<"u1">> THEN "completion" ELSE "none"]

NextRace == SyncNext(Syncs, Users, {"lunch"}, Ticks)

SpecRace == InitRace /\ [][NextRace]_vars

\* two callbacks of granted consents at a time
InitComplete == InitWith({EnvGood}, {<<"u1">>}, {"primary"})

\* two callbacks of granted consents at a time, over a table with each of the
\* key constraints
InitTwin == InitWith({EnvGood}, {<<"u1">>}, Schemas)

NextTwin == GrantedCallback(Compls, {<<"u1">>})
            \/ ComplSteps(Compls, Ticks, Inert, EncodedIds)

SpecTwin == InitTwin /\ [][NextTwin]_vars

\* deployments with a variable not set, and the complete one
InitConfig == InitWith(EnvsBroken \cup {EnvGood}, {<<"u1">>}, {"primary"})

\* callbacks for u1 with and without a code and an error parameter
ConfigCallback(C) ==
    \E c \in C, v \in Completers, code \in {"absent", "abc"}, e \in {"absent", "plain"} :
        ComplStart(c, v, code, <<"u1">>, e,
                   IF v = "fitbit-oauth-callback" THEN <<"u1">> ELSE <<>>, PublicBase)

\* every operation on the requests of a flow that succeeds in the complete
\* deployment
NextConfig ==
    \/ SyncNext({"s1"}, {<<"u1">>}, {"lunch"}, SameMs)
    \/ GrantedCallback({"c1"}, {<<"u1">>}) \/ ComplSteps({"c1"}, SameMs, Inert, FitbitIds)
    \/ \E v \in Initiators : Initiate(v, <<"u1">>, TRUE, "object")

SpecConfig == InitConfig /\ [][NextConfig]_vars

\* every operation: relay invocations on every body, connect requests for u1,
\* callbacks with and without a code and an error parameter
NextDeploy ==
    \/ SyncNext({"s1"}, {<<"u1">>}, {"lunch"}, SameMs)
    \/ ConfigCallback({"c1"}) \/ ComplSteps({"c1"}, SameMs, Inert, FitbitIds)
    \/ \E v \in Initiators : Initiate(v, <<"u1">>, TRUE, "object")

SpecDeploy == InitConfig /\ [][NextDeploy]_vars

\* the connect flow of the component, which requests its URL from fitbit-auth:
\* the popup, the callback behind it, the interval, the listener and the
\* timers, the status reads they start and the one of the first render
FlowNext ==
    \/ ConnectClick
    \/ \E a \in Attempts, fetchOk \in BOOLEAN, blocked \in BOOLEAN :
          ConnectOpen(a, fetchOk, blocked)
    \/ \E granted \in BOOLEAN : PopupConsent("c1", "fitbit-auth", granted)
    \/ \E ok \in BOOLEAN, fid \in FitbitIds, text \in Inert :
          ComplExchange("c1", ok, fid, text, 0, 0)
    \/ \E writeOk \in BOOLEAN, text \in Inert : ComplUpsert("c1", writeOk, text)
    \/ PopupLoad("c1")
    \/ PopupGone("c1")
    \/ PopupSelfClose
    \/ PopupUserClose
    \/ \E a \in Attempts : IntervalTick(a)
    \/ \E type \in MessageTypes : ForeignMessage(type)
    \/ \E type \in MessageTypes : MessageEvent(type)
    \/ \E a \in Attempts : CleanupTimeout(a)
    \/ DelayedCheck
    \/ ChecksNext

\* the connect flow and the button Disconnect
NextConnect == FlowNext \/ DisconnectsNext(SameMs, 1)

\* a cleanup timer that was set fires; nothing bounds the time after which a
\* fetch or a request to the store is answered
SpecConnect ==
    /\ Init /\ [][NextConnect]_vars
    /\ \A a \in Attempts : WF_vars(CleanupTimeout(a))

\* the connect flow in the complete deployment
NextMessage == FlowNext

SpecMessage == InitComplete /\ [][NextMessage]_vars

\* two connected users: relay invocations and callbacks for either, the
\* component of u1
InitUsers ==
    /\ env = EnvGood
    /\ schema = "primary"
    /\ db = [k \in Keys |-> IF k \in Users THEN ConnectedRow ELSE NoRow]
    /\ issued = 0
    /\ now = ConnectedRow.updated_at
    /\ sync = [s \in Syncs |-> IdleSync]
    /\ compl = [c \in Compls |-> IdleCompl]
    /\ initResp = NoInit
    /\ uuids = 0
    /\ facade = NewFacade(<<"u1">>)
    /\ lastAuth = [k \in Keys |-> IF k \in Users THEN "completion" ELSE "none"]

NextUsers ==
    \/ \E u \in Users, readOk \in BOOLEAN : SyncStart("s1", "object", u, "lunch", readOk)
    \/ \E status \in WriteStatuses : SyncFirstWrite("s1", status, "42")
    \/ \E ok \in BOOLEAN, d \in Ticks : SyncRefresh("s1", ok, d)
    \/ \E writeOk \in BOOLEAN : SyncUpdate("s1", writeOk)
    \/ \E status \in WriteStatuses : SyncRetry("s1", status, "42")
    \/ SyncRespond("s1")
    \/ \E u \in Users :
          ComplStart("c1", "fitbit-auth", "abc", u, "absent", <<>>, PublicBase)
    \/ ComplExchange("c1", TRUE, "F1", "plain", 0, 0)
    \/ \E writeOk \in BOOLEAN : ComplUpsert("c1", writeOk, "plain")
    \/ ComplRespond("c1")
    \/ ChecksNext \/ DisconnectsNext(SameMs, 1)

SpecUsers == InitUsers /\ [][NextUsers]_vars

\* one connect request for u1, then callbacks that carry the state of its URL
FirstInitiate ==
    \E v \in Initiators :
        /\ initResp = NoInit
        /\ Initiate(v, <<"u1">>, TRUE, "object")

NextReplay == FirstInitiate \/ FlowCallback(Compls, Users)
              \/ ComplSteps(Compls, SameMs, Inert, FitbitIds)

SpecReplay == InitComplete /\ [][NextReplay]_vars

\* the buttons of the component of a connected user, and the callbacks that
\* connect the user again
NextFacade ==
    \/ FacadeNext(SameMs, {"s1"})
    \/ \E status \in {200, 500} : SyncFirstWrite("s1", status, "42")
    \/ ComplStart("c1", "fitbit-auth", "abc", <<"u1">>, "absent", <<>>, PublicBase)
    \/ \E d \in Ticks : ComplExchange("c1", TRUE, "F1", "plain", 0, d)
    \/ \E writeOk \in BOOLEAN : ComplUpsert("c1", writeOk, "plain")
    \/ ComplRespond("c1")

SpecFacade == InitRace /\ [][NextFacade]_vars

\* one relay invocation at a time with every meal type, u1 connected
NextMeal == SyncNext({"s1"}, Users, MealTypes, Ticks)

SpecMeal == InitRace /\ [][NextMeal]_vars

----------------------------------------------------------------------------
(* Claims about the relay and the credential record, checked under Spec *)

\* C1, as stated: every relay invocation whose first write is answered 401 calls
\* the refresher exactly once and retries the write exactly once with the new
\* access token; a 401 on the retry ends it in SyncFailed.
C1_Original ==
    \A s \in Syncs :
        (sync[s].pc = "done" /\ sync[s].status1 = 401) =>
            /\ sync[s].nRefresh = 1
            /\ sync[s].nWrite = 2
            /\ sync[s].tok2 = sync[s].refreshData.access_token
            /\ sync[s].status2 = 401 => sync[s].result = ErrorResponse(SyncFailed, 401)

\* C1, amended: an invocation never refreshes twice nor writes three times; one
\* whose first write is answered 401 calls the refresher exactly once; when the
\* token endpoint accepts the refresh the write is retried exactly once, with the
\* new access token, and a 401 on the retry ends it in SyncFailed; when the token
\* endpoint rejects the refresh it ends in RefreshFailed with no retried write.
C1_RefreshOnceRetryOnce ==
    \A s \in Syncs :
        /\ sync[s].nRefresh <= 1
        /\ sync[s].nWrite <= 2
        /\ (sync[s].pc = "done" /\ sync[s].status1 = 401) =>
              /\ sync[s].nRefresh = 1
              /\ IF sync[s].refreshData # NoTokenData
                   THEN /\ sync[s].nWrite = 2
                        /\ sync[s].tok2 = sync[s].refreshData.access_token
                        /\ sync[s].tok2 # sync[s].tok1
                        /\ sync[s].status2 = 401 =>
                              sync[s].result = ErrorResponse(SyncFailed, 401)
                   ELSE /\ sync[s].nWrite = 1
                        /\ sync[s].result = ErrorResponse(RefreshFailed, 0)

\* a finished invocation whose two writes were both answered 401
C1_Witness ==
    \E s \in Syncs :
        /\ sync[s].pc = "done"
        /\ sync[s].status1 = 401 /\ sync[s].status2 = 401
        /\ sync[s].nRefresh = 1 /\ sync[s].nWrite = 2
        /\ sync[s].result.error = SyncFailed

\* C2: in every state of every profile row, the access token and the refresh
\* token are both present or both absent.
C2_BothOrNeither ==
    \A k \in Keys :
        (db[k].fitbit_access_token = NullTok) <=> (db[k].fitbit_refresh_token = NullTok)

\* a refresh update that landed on a row after the disconnect of that row
C2_Witness ==
    \E u \in Users :
        /\ lastAuth[u] = "disconnect"
        /\ db[u].fitbit_access_token # NullTok
        /\ db[u].fitbit_refresh_token # NullTok

\* C3: whenever refreshToken returns after the token endpoint accepted the
\* refresh, the stored pair is the new pair, updated_at is the time the refresh
\* stamped on its update, and the new access token is returned.
C3_RefreshReplacesBoth ==
    [][\A s \in Syncs :
          (sync[s].pc = "update" /\ sync'[s].pc = "write2") =>
              LET u == sync[s].userId
                  d == sync[s].refreshData
              IN  /\ db'[u].fitbit_access_token = d.access_token
                  /\ db'[u].fitbit_refresh_token = d.refresh_token
                  /\ db'[u].updated_at = sync[s].updatedAt
                  /\ sync'[s].accessToken = d.access_token]_vars

\* C4: a relay invocation (of a configured deployment) whose read of the profile
\* failed, found no row, or found a row without access token ends in NotConnected
\* and has called neither the food-log endpoint nor the token endpoint.
C4_NotConnectedNoCalls ==
    \A s \in Syncs :
        (\/ sync[s].read \in {"error", "norow"}
         \/ sync[s].read = "row" /\ sync[s].profile.fitbit_access_token = NullTok) =>
            /\ sync[s].pc = "done"
            /\ sync[s].result = ErrorResponse(NotConnected, 0)
            /\ sync[s].nWrite = 0
            /\ sync[s].nRefresh = 0
            /\ sync[s].nUpdate = 0

\* the profile of a connected user could not be read
C4_Witness ==
    \E s \in Syncs :
        /\ sync[s].read = "error"
        /\ db[sync[s].userId].fitbit_access_token # NullTok
        /\ sync[s].result.error = NotConnected

\* C5: once a disconnect has cleared the row of a user and no callback has
\* written it since, a status read that the store answers brings no access
\* token, and a relay invocation that starts ends in NotConnected without any
\* provider call.
C5_AfterDisconnect ==
    /\ [][lastAuth[facade.user] = "disconnect" => ~StatusAnswered("data")]_vars
    /\ [](\A s \in Syncs :
             sync[s].sawAuth = "disconnect" =>
                 /\ sync[s].pc = "done"
                 /\ sync[s].result = ErrorResponse(NotConnected, 0)
                 /\ sync[s].nWrite = 0
                 /\ sync[s].nRefresh = 0)

\* C8: the step that ends an invocation whose first write was answered 401 and
\* whose retry succeeded answers success with the log id, and the stored access
\* token is then the one the single refresh returned.
C8_RotatedOnceSuccess ==
    [][\A s \in Syncs :
          (sync[s].pc = "write2" /\ sync'[s].pc = "done" /\ sync'[s].status1 = 401
           /\ IsOk(sync'[s].status2)) =>
              /\ sync'[s].result.success
              /\ sync'[s].nRefresh = 1
              /\ db'[sync[s].userId].fitbit_access_token
                    = sync[s].refreshData.access_token]_vars

\* C11: a relay invocation whose first write is answered with a failure other
\* than 401 is ended by that answer in SyncFailed carrying the provider status;
\* it has made one write, no refresh and no update of the profile.
C11_OtherFailureImmediate ==
    \A s \in Syncs :
        (sync[s].status1 # 0 /\ sync[s].status1 # 401 /\ ~IsOk(sync[s].status1)) =>
            /\ sync[s].pc = "done"
            /\ sync[s].result = ErrorResponse(SyncFailed, sync[s].status1)
            /\ sync[s].nWrite = 1
            /\ sync[s].nRefresh = 0
            /\ sync[s].nUpdate = 0
            /\ sync[s].status2 = 0

\* the first write of an invocation was answered 500
C11_Witness ==
    \E s \in Syncs :
        /\ sync[s].status1 = 500
        /\ sync[s].result.error = SyncFailed
        /\ sync[s].result.providerStatus = 500

\* C12: a relay invocation whose refresh the token endpoint rejected is ended by
\* that answer in RefreshFailed; it has made one refresh, one write and no update
\* of the profile.
C12_RefreshFailedTerminal ==
    \A s \in Syncs :
        (sync[s].nRefresh >= 1 /\ sync[s].refreshData = NoTokenData) =>
            /\ sync[s].pc = "done"
            /\ sync[s].result = ErrorResponse(RefreshFailed, 0)
            /\ sync[s].nRefresh = 1
            /\ sync[s].nWrite = 1
            /\ sync[s].nUpdate = 0
            /\ sync[s].status2 = 0

\* the refresh of an invocation was rejected
C12_Witness ==
    \E s \in Syncs :
        /\ sync[s].pc = "done"
        /\ sync[s].status1 = 401
        /\ sync[s].nRefresh = 1
        /\ sync[s].refreshData = NoTokenData
        /\ sync[s].result.error = RefreshFailed

----------------------------------------------------------------------------
(* Claims about the meal type, checked under SpecMeal *)

\* C21: the step in which the first write of a relay invocation for a meal type
\* of the table is answered with success has sent the code of the table for it
\* (1, 2, 3, 4, 5, 7; 3 for lunch) and ends the invocation with success; the
\* invocation has made one write and no refresh, and the step leaves the table,
\* the clock and the provider's token counter as they were.
C21_RecognizedCategory ==
    [][\A s \in Syncs :
          (/\ sync[s].pc = "write1" /\ sync'[s].pc # "write1"
           /\ IsOk(sync'[s].status1)
           /\ sync[s].mealType \in TableMealTypes) =>
              LET code == [mt \in TableMealTypes |->
                             CASE mt = "breakfast" -> 1
                               [] mt = "morning-snack" -> 2
                               [] mt = "lunch" -> 3
                               [] mt = "afternoon-snack" -> 4
                               [] mt = "dinner" -> 5
                               [] OTHER -> 7]
              IN  /\ sync'[s].mealTypeId.kind = "number"
                  /\ sync'[s].mealTypeId.n = code[sync[s].mealType]
                  /\ sync'[s].pc = "done"
                  /\ sync'[s].result.success
                  /\ sync'[s].result.status = 200
                  /\ sync'[s].tok1 = sync[s].profile.fitbit_access_token
                  /\ sync'[s].nWrite = 1
                  /\ sync'[s].nRefresh = 0
                  /\ sync'[s].nUpdate = 0
                  /\ db' = db /\ now' = now /\ issued' = issued]_vars

\* a lunch was logged at the first attempt with code 3
C21_Witness ==
    \E s \in Syncs :
        /\ sync[s].pc = "done"
        /\ sync[s].mealType = "lunch"
        /\ sync[s].mealTypeId.n = 3
        /\ sync[s].status1 = 200
        /\ sync[s].result.success
        /\ sync[s].nRefresh = 0

\* C22: every relay invocation that has sent a write for a meal type outside
\* the table, the missing one included, has sent the default code 1.
C22_UnrecognizedDefault ==
    \A s \in Syncs :
        (sync[s].nWrite >= 1 /\ sync[s].mealType \notin TableMealTypes) =>
            /\ sync[s].mealTypeId.kind = "number"
            /\ sync[s].mealTypeId.n = 1

----------------------------------------------------------------------------
(* Claims about the connect flow of the component, checked under SpecConnect *)

\* C23: while the component is awaiting consent (isConnecting) the cleanup
\* timer of 5 minutes of the attempt is pending; every state in which it is
\* awaiting consent is followed by one in which it is not; the step in which a
\* status read shows a populated credential, and the step in which the
\* component receives an error message, leave it not awaiting consent; and the
\* step in which a cleanup timer fires leaves it not awaiting consent, with the
\* popup of that attempt closed and its interval and listener stopped, so that
\* the connect button is enabled again.
C23_LeavesAwaitingConsent ==
    /\ [](facade.isConnecting =>
            \E a \in Attempts : facade.attempts[a].timer = 5 * 60 * 1000)
    /\ (facade.isConnecting ~> ~facade.isConnecting)
    /\ [][/\ StatusShown("data") => ~facade'.isConnecting
          /\ ("FITBIT_AUTH_ERROR" \in facade.inbox \ facade'.inbox) =>
                ~facade'.isConnecting
          /\ \A a \in Attempts :
                (facade.attempts[a].timer # 0 /\ facade'.attempts[a].timer = 0) =>
                    /\ ~facade'.isConnecting
                    /\ ~(facade'.win.open /\ facade'.win.id = facade.attempts[a].popup)
                    /\ ~facade'.attempts[a].interval
                    /\ ~facade'.attempts[a].listener]_vars

\* C24: once the closures of an attempt have ended the wait (by the catch block,
\* the closed popup, the success message or the cleanup timer), that attempt has
\* no interval running, no listener registered and no cleanup timer pending.
C24_NoTimerLeft ==
    \A a \in Attempts :
        facade.attempts[a].exit # "none" =>
            /\ ~facade.attempts[a].interval
            /\ ~facade.attempts[a].listener
            /\ facade.attempts[a].timer = 0

\* C25: the step in which the component receives a FITBIT_AUTH_ERROR message
\* while it is awaiting consent ends the wait and reports the failure.
C25_ErrorSignalFails ==
    [][(/\ "FITBIT_AUTH_ERROR" \in facade.inbox
        /\ "FITBIT_AUTH_ERROR" \notin facade'.inbox
        /\ facade.isConnecting) =>
           /\ ~facade'.isConnecting
           /\ facade'.toast = "Connection Failed"]_vars

\* C26: a popup that shows the success page of a callback has posted the
\* completion message to its opener and, while it is open, has its timer for
\* window.close() set.
C26_SuccessPageSignals ==
    facade.win.page = "success_page" =>
        /\ "FITBIT_AUTH_SUCCESS" \in facade.win.posted
        /\ facade.win.open => facade.win.closing

\* C36: while an attempt has its popup opened and none of its own closures
\* (interval, listener, cleanup timer, catch block) has ended its wait, the
\* component is awaiting consent.
C36_LaterAttemptUndisturbed ==
    \A a \in Attempts :
        (facade.attempts[a].pc = "open" /\ facade.attempts[a].exit = "none") =>
            facade.isConnecting

----------------------------------------------------------------------------
(* Claims about messages to the component, checked under SpecMessage *)

\* C37: the step in which the component comes to show connected is the one in
\* which a status read resumes with a row that holds an access token, which
\* the store answered from the row of the signed-in user; the step that
\* handles a message leaves the displayed connection state as it was and
\* announces no connection, and when it handles a success message with a
\* listener registered it starts a status read.
C37_ConnectedOnlyByRead ==
    [][/\ (~facade.isConnected /\ facade'.isConnected) => StatusShown("data")
       /\ StatusAnswered("data") =>
             /\ db[facade.user].exists
             /\ db[facade.user].fitbit_access_token # NullTok
       /\ (facade'.inbox # facade.inbox /\ facade'.inbox \subseteq facade.inbox) =>
             /\ facade'.isConnected = facade.isConnected
             /\ facade'.fitbitProfile = facade.fitbitProfile
             /\ facade'.toast # "Fitbit Connected!"
             /\ ("FITBIT_AUTH_SUCCESS" \in facade.inbox \ facade'.inbox
                 /\ \E a \in Attempts : facade.attempts[a].listener) =>
                    CopiesIn("sent", facade'.reads) > CopiesIn("sent", facade.reads)]_vars

----------------------------------------------------------------------------
(* Claims about two users, checked under SpecUsers *)

\* C27: a step of a relay invocation, of a callback or of the component
\* leaves the row of every user id other than the one it is performed for as
\* it was; the profile a relay invocation reads is the row of the user id of
\* its request, and the status the component shows is that of the row of the
\* signed-in user.
C27_NoCrossUser ==
    [][/\ \A s \in Syncs :
             /\ sync'[s] # sync[s] =>
                   \A k \in Keys : k # sync[s].userId => db'[k] = db[k]
             /\ (sync[s].pc = "idle" /\ sync'[s].pc # "idle") =>
                   sync'[s].profile \in {db[sync'[s].userId], NoRow}
       /\ \A c \in Compls :
             compl'[c] # compl[c] =>
                 \A k \in Keys : k # compl[c].target => db'[k] = db[k]
       /\ (sync' = sync /\ compl' = compl) =>
             \A k \in Keys : k # facade.user => db'[k] = db[k]
       /\ StatusAnswered("data") => db[facade.user].fitbit_access_token # NullTok
       /\ StatusAnswered("nodata") => db[facade.user].fitbit_access_token = NullTok
       /\ (~facade.isConnected /\ facade'.isConnected) => StatusShown("data")
       /\ (facade.isConnected /\ ~facade'.isConnected) =>
             StatusShown("nodata") \/ DisconnectShown(TRUE)]_vars

\* u1 was disconnected and a relay invocation for u1 has rotated its tokens
\* or failed, while the row of u2 is the one it had at the start
C27_Witness ==
    /\ db[<<"u2">>] = ConnectedRow
    /\ db[<<"u1">>] # ConnectedRow
    /\ db[<<"u1">>].exists
    /\ db[<<"u1">>].updated_at > ConnectedRow.updated_at
    /\ \E s \in Syncs : sync[s].userId = <<"u1">> /\ sync[s].nUpdate = 1 /\ sync[s].updateOk

\* C28: a step that changes the provider user id or the time of connection of
\* a row is the upsert of a callback for that user id or the disconnect of the
\* signed-in user, which clears both; the steps of a relay invocation, the
\* update of refreshToken included, leave both fields of every row as they were.
C28_IdentityStable ==
    [][\A k \in Keys :
          (\/ db'[k].fitbit_user_id # db[k].fitbit_user_id
           \/ db'[k].fitbit_connected_at # db[k].fitbit_connected_at) =>
              /\ \A s \in Syncs : sync'[s] = sync[s]
              /\ \/ \E c \in Compls :
                       /\ compl[c].pc = "upsert" /\ compl'[c].pc = "done"
                       /\ compl[c].target = k
                       /\ db'[k].fitbit_user_id = compl[c].fitbitUserId
                       /\ db'[k].fitbit_connected_at = compl[c].connectedAt
                 \/ /\ \E t \in Stamps : UpdateAnswered(t, TRUE)
                    /\ lastAuth'[k] = "disconnect"
                    /\ compl' = compl
                    /\ facade.user = k
                    /\ db'[k].fitbit_user_id = "null"
                    /\ db'[k].fitbit_connected_at = 0]_vars

\* the update of a refresh has landed on a row that keeps its provider user id
\* and its time of connection
C28_Witness ==
    \E s \in Syncs :
        /\ sync[s].pc \in {"write2", "done"}
        /\ sync[s].updateOk
        /\ db[sync[s].userId].fitbit_access_token = sync[s].refreshData.access_token
        /\ db[sync[s].userId].fitbit_user_id = "F1"
        /\ db[sync[s].userId].fitbit_connected_at = ConnectedRow.fitbit_connected_at
        /\ db[sync[s].userId].updated_at > ConnectedRow.updated_at

----------------------------------------------------------------------------
(* Claims about concurrent relay invocations, checked under SpecRace *)

\* two invocations for one user that sent the same refresh token, were both
\* answered by the token endpoint and whose updates the store both accepted
Raced(a, b) ==
    /\ a.userId = b.userId
    /\ a.nRefresh = 1 /\ b.nRefresh = 1
    /\ a.refreshSent = b.refreshSent
    /\ a.refreshData # NoTokenData /\ b.refreshData # NoTokenData

\* C13: when two relay invocations for one user sent the same stored refresh
\* token and were both answered, the update that comes last leaves its own pair in
\* the row (last write wins), each invocation holds the access token of its own
\* answer, and each retries its write with that token.
C13_RaceLastWriteWins ==
    [][\A s \in Syncs : \A t \in Syncs \ {s} :
          /\ (/\ sync[s].pc = "update" /\ sync'[s].pc = "write2" /\ sync'[s].updateOk
              /\ sync[t].pc \in {"write2", "done"} /\ sync[t].updateOk
              /\ Raced(sync'[s], sync[t])) =>
                 LET u == sync[s].userId
                 IN  /\ db'[u].fitbit_access_token = sync[s].refreshData.access_token
                     /\ db'[u].fitbit_refresh_token = sync[s].refreshData.refresh_token
                     /\ db'[u].fitbit_access_token # sync[t].refreshData.access_token
                     /\ db'[u].updated_at = sync[s].updatedAt
                     /\ sync'[s].accessToken = sync[s].refreshData.access_token
                     /\ sync[t].accessToken = sync[t].refreshData.access_token
                     /\ sync[t].accessToken # NullTok
          /\ (/\ sync[s].pc = "write2" /\ sync'[s].pc = "done"
              /\ Raced(sync[s], sync[t])) =>
                 /\ sync'[s].tok2 = sync[s].refreshData.access_token
                 /\ sync'[s].nWrite = 2
                 /\ sync'[s].result = FinalResponse(sync'[s].status2,
                                                    sync'[s].result.fitbitLogId)]_vars

\* both invocations of a race have ended with a successful retry
C13_Witness ==
    /\ Raced(sync["s1"], sync["s2"])
    /\ sync["s1"].refreshSent # NullTok
    /\ sync["s1"].updateOk /\ sync["s2"].updateOk
    /\ sync["s1"].pc = "done" /\ sync["s2"].pc = "done"
    /\ sync["s1"].result.success /\ sync["s2"].result.success
    /\ sync["s1"].tok2 # sync["s2"].tok2
    /\ db[sync["s1"].userId].fitbit_access_token \in {sync["s1"].tok2, sync["s2"].tok2}

----------------------------------------------------------------------------
(* Claims about concurrent callbacks, checked under SpecTwin *)

----------------------------------------------------------------------------
(* Claims about the callback handlers, checked under SpecAuth *)

\* C6: the step in which a callback stores the tokens and answers with the
\* success page leaves, under the user id the handler resolved, a row whose two
\* tokens are those of the token response, whose provider user id is set (to
\* the user_id of the token response, or for fitbit-oauth-callback to the
\* encodedId of the profile it fetched), and whose connected_at and updated_at
\* are the two readings of the clock that the handler put in the payload of
\* that write.
C6_CompletionStoresRecord ==
    [][\A c \in Compls :
          (compl[c].pc = "upsert" /\ compl'[c].pc = "done"
           /\ compl'[c].result.kind = "success_page") =>
              LET k == compl[c].target
                  d == compl[c].tokenData
              IN  /\ k \in Keys
                  /\ compl[c].variant # "fitbit-oauth-callback" => k = compl[c].req.state
                  /\ db'[k].exists
                  /\ d.access_token # NullTok /\ d.refresh_token # NullTok
                  /\ db'[k].fitbit_access_token = d.access_token
                  /\ db'[k].fitbit_refresh_token = d.refresh_token
                  /\ db'[k].fitbit_user_id = compl[c].fitbitUserId
                  /\ compl[c].variant # "fitbit-oauth-callback" =>
                        db'[k].fitbit_user_id = d.user_id
                  /\ db'[k].fitbit_user_id # "null"
                  /\ db'[k].fitbit_connected_at = compl[c].connectedAt
                  /\ db'[k].updated_at = compl[c].updatedAt
                  /\ compl[c].connectedAt >= 1
                  /\ compl[c].updatedAt >= compl[c].connectedAt]_vars

\* a callback has stored its token response
C6_Witness ==
    \E c \in Compls :
        /\ compl[c].pc = "done"
        /\ compl[c].result.kind = "success_page"
        /\ compl[c].nExchange = 1 /\ compl[c].nUpsert = 1
        /\ db[compl[c].target].fitbit_access_token = compl[c].tokenData.access_token

\* C7: a callback that carries an error parameter, with or without a code, never
\* answers with the success page and calls neither the token endpoint nor the
\* store.
C7_ErrorParamNoExchange ==
    \A c \in Compls :
        compl[c].req.hasError =>
            /\ compl[c].result.kind # "success_page"
            /\ compl[c].nExchange = 0
            /\ compl[c].nUpsert = 0

\* C15: a callback in which the code or the state is absent calls neither the
\* token endpoint nor the store and does not answer with the success page.
C15_BothRequired ==
    \A c \in Compls :
        (compl[c].pc # "idle"
         /\ (~HasCodeValue(compl[c].req.code) \/ ~Truthy(compl[c].req.state))) =>
            /\ compl[c].nExchange = 0
            /\ compl[c].nUpsert = 0
            /\ compl[c].result.kind # "success_page"

\* C16: a callback whose code the token endpoint rejected is ended by that
\* answer in TokenExchangeFailed carrying the provider's status and body; it has
\* called the token endpoint once and the store not at all.
C16_ExchangeFailedTerminal ==
    \A c \in Compls :
        (compl[c].nExchange >= 1 /\ compl[c].tokenData = NoTokenData) =>
            /\ compl[c].pc = "done"
            /\ compl[c].result.message = TokenExchangeFailed
            /\ compl[c].result.kind # "success_page"
            /\ compl[c].result.carries = {"status", "body"}
            /\ compl[c].nExchange = 1
            /\ compl[c].nUpsert = 0

----------------------------------------------------------------------------
(* Claims about the use of a state value, checked under SpecReplay *)

\* C30: of the callbacks that carry the state value of one issued URL at most
\* one stores credentials: no two callbacks with that state value have both
\* answered with the success page.
C30_StateUsedOnce ==
    \A c \in Compls : \A d \in Compls \ {c} :
        ~(/\ compl[c].flow.via # "none" /\ compl[d].flow.via # "none"
          /\ compl[c].req.state = compl[d].req.state
          /\ compl[c].nUpsert = 1 /\ compl[d].nUpsert = 1
          /\ compl[c].result.kind = "success_page"
          /\ compl[d].result.kind = "success_page")

----------------------------------------------------------------------------
(* Claims about the configuration, checked under SpecDeploy and SpecConfig *)

\* the variables of the environment that hold the configuration an operation
\* needs: client id, client secret and the address and key of the store, and
\* for fitbit-oauth-callback the callback address. fitbit-oauth-start needs the
\* client id and the callback address of its URL and reads neither: it takes
\* both from literals
SyncReads == {"FITBIT_CLIENT_ID", "FITBIT_CLIENT_SECRET", "SUPABASE_URL",
              "SUPABASE_SERVICE_ROLE_KEY"}

ComplReads(variant) ==
    IF variant = "fitbit-oauth-callback"
      THEN SyncReads \cup {"FITBIT_REDIRECT_URI"}
      ELSE SyncReads

InitNeeds(variant) ==
    IF variant = "fitbit-oauth-start"
      THEN {"FITBIT_CLIENT_ID", "FITBIT_REDIRECT_URI"}
      ELSE SyncReads

\* the messages with which the handlers report a variable that is not set
ConfigMessages == {ConfigurationError, MissingEnv, ClientInitError, ClientKeyError}

\* C17: an operation whose configuration the deployment has not set in full
\* ends in a failure with a configuration message; it has called neither the
\* provider nor the store, and it has returned no URL and no success.
C17_ConfigurationFirst ==
    /\ \A s \in Syncs :
          (sync[s].pc # "idle" /\ \E v \in SyncReads : Len(env[v]) = 0) =>
              /\ sync[s].pc = "done"
              /\ ~sync[s].result.success
              /\ sync[s].result.error \in ConfigMessages
              /\ sync[s].read = "none"
              /\ sync[s].nWrite = 0 /\ sync[s].nRefresh = 0 /\ sync[s].nUpdate = 0
    /\ \A c \in Compls :
          (compl[c].pc # "idle"
           /\ \E v \in ComplReads(compl[c].variant) : Len(env[v]) = 0) =>
              /\ compl[c].pc = "done"
              /\ compl[c].result.kind # "success_page"
              /\ compl[c].result.message \in ConfigMessages
              /\ compl[c].nExchange = 0 /\ compl[c].nUpsert = 0
    /\ (initResp.variant # "none"
         /\ \E v \in InitNeeds(initResp.variant) : Len(env[v]) = 0) =>
              /\ ~initResp.success
              /\ initResp.authUrl = NoUrl
              /\ initResp.error \in ConfigMessages

\* the place of a relay invocation and of a callback in its handler
SyncRank(pc) ==
    CASE pc = "idle" -> 0 [] pc = "write1" -> 1 [] pc = "refresh" -> 2
      [] pc = "update" -> 3 [] pc = "write2" -> 4 [] OTHER -> 5

ComplRank(pc) ==
    CASE pc = "idle" -> 0 [] pc = "exchange" -> 1 [] pc = "profile" -> 2
      [] pc = "upsert" -> 3 [] OTHER -> 4

\* C29: a relay invocation makes at most two writes to the provider, the
\* second only after its one refresh, and at most one call of the token
\* endpoint; a callback makes at most one token exchange and one upsert; every
\* step of an invocation moves it forward in its handler, so that it ends
\* after at most five steps, and it holds a response exactly when it has ended.
C29_BoundedInvocation ==
    /\ [](\A s \in Syncs :
             /\ sync[s].nWrite <= 2
             /\ sync[s].nRefresh <= 1
             /\ sync[s].nUpdate <= 1
             /\ sync[s].nWrite = 2 => sync[s].nRefresh = 1 /\ sync[s].status1 = 401
             /\ (sync[s].result # NoResult) <=> (sync[s].pc = "done"))
    /\ [](\A c \in Compls :
             /\ compl[c].nExchange <= 1
             /\ compl[c].nUpsert <= 1
             /\ (compl[c].result # NoPage) <=> (compl[c].pc = "done"))
    /\ [][/\ \A s \in Syncs :
                 sync'[s] # sync[s] =>
                     \/ SyncRank(sync'[s].pc) > SyncRank(sync[s].pc)
                     \/ sync[s].pc = "done" /\ sync'[s] = IdleSync
           /\ \A c \in Compls :
                 compl'[c] # compl[c] =>
                     \/ ComplRank(compl'[c].pc) > ComplRank(compl[c].pc)
                     \/ compl[c].pc = "done" /\ compl'[c] = IdleCompl]_vars

\* a relay invocation has ended after two writes that were both answered 401,
\* and a callback after an exchange that was rejected
C29_Witness ==
    /\ \E s \in Syncs :
          /\ sync[s].pc = "done" /\ sync[s].nWrite = 2 /\ sync[s].nRefresh = 1
          /\ sync[s].status2 = 401 /\ ~sync[s].result.success
    /\ \E c \in Compls :
          /\ compl[c].pc = "done" /\ compl[c].nExchange = 1
          /\ compl[c].result.message = TokenExchangeFailed

----------------------------------------------------------------------------
(* Claims about the handshake, checked under SpecFlow (C20: under SpecInitiate) *)

\* the handler that is deployed at the callback address of an issued URL
PairedHandler(via) ==
    CASE via = "fitbit-auth" -> "fitbit-auth"
      [] via = "fitbit-auth-v1" -> "fitbit-auth-v1"
      [] via = "fitbit-auth-v2" -> "fitbit-auth-v2"
      [] via = "fitbit-oauth-start" -> "fitbit-oauth-callback"
      [] OTHER -> "none"

\* C9: a callback that carries the state value of a URL issued for user u and a
\* valid code, handled at the callback address of that URL, is not refused for
\* want of a user id, and the row it writes is the row of u.
C9_StateBindsUser ==
    \A c \in Compls :
        (/\ compl[c].flow.via # "none"
         /\ compl[c].variant = PairedHandler(compl[c].flow.via)) =>
            /\ compl[c].result.message # NoUserId
            /\ compl[c].result.kind = "success_page" => compl[c].target = compl[c].flow.user

\* C18: a connect request whose body is a JSON value other than null and holds
\* an empty or no user id, in a deployment that is configured, is answered with
\* a 4xx status and without a URL.
C18_EmptyUserRejected ==
    (/\ initResp.variant # "none"
     /\ initResp.body = "object"
     /\ ~Truthy(initResp.userId)
     /\ \A v \in InitNeeds(initResp.variant) : Truthy(env[v])) =>
        /\ ~initResp.success
        /\ initResp.authUrl = NoUrl
        /\ initResp.status >= 400 /\ initResp.status <= 499

\* C19: every URL a connect request returns carries response_type=code, the
\* client id of the configuration and the scope list nutrition weight heartrate
\* activity location profile sleep.
C19_UrlContents ==
    HasUrl(initResp) =>
        /\ Truthy(initResp.userId)
        /\ initResp.authUrl.response_type = <<"code">>
        /\ initResp.authUrl.client_id = env.FITBIT_CLIENT_ID
        /\ decodeParam(initResp.authUrl.scope) = AuthScope

\* C20: the step that answers a connect request leaves the table, the
\* provider's token counter, the clock and every other invocation as they were.
C20_InitiationPure ==
    [][initResp' # initResp =>
          /\ db' = db
          /\ issued' = issued
          /\ now' = now
          /\ lastAuth' = lastAuth
          /\ sync' = sync
          /\ compl' = compl]_vars

\* a connect request for a user with a profile row has been answered with a URL
C20_Witness ==
    /\ HasUrl(initResp)
    /\ initResp.userId \in Keys
    /\ db[initResp.userId].exists
    /\ Truthy(initResp.authUrl.state)

\* C10: the redirect_uri the handler at the callback address sends with the
\* authorization_code grant is the callback address of the issued URL.
C10_SameCallbackAddress ==
    \A c \in Compls :
        (/\ compl[c].flow.via # "none"
         /\ compl[c].variant = PairedHandler(compl[c].flow.via)
         /\ compl[c].nExchange >= 1) =>
            decodeParam(formEncode(compl[c].redirectUri)) = compl[c].flow.redirect_uri

----------------------------------------------------------------------------
(* Claims about a rejected refresh, checked under SpecMeal *)

\* C39: when a relay invocation has ended because the token endpoint rejected
\* its refresh, the row of its user is the row the invocation read when it
\* started, tokens and timestamps included, and the invocation has sent no
\* update.
C39_FailedRefreshNoWrite ==
    \A s \in Syncs :
        (/\ sync[s].pc = "done"
         /\ sync[s].nRefresh >= 1
         /\ sync[s].result = ErrorResponse(RefreshFailed, 0)) =>
            /\ db[sync[s].userId] = sync[s].profile
            /\ sync[s].nUpdate = 0

\* the refresh of an invocation was rejected, for a row that an earlier
\* refresh had rotated
C39_Witness ==
    \E s \in Syncs :
        /\ sync[s].pc = "done"
        /\ sync[s].status1 = 401
        /\ sync[s].refreshSent # NullTok
        /\ sync[s].refreshSent # ConnectedRow.fitbit_refresh_token
        /\ sync[s].result = ErrorResponse(RefreshFailed, 0)
        /\ db[sync[s].userId].fitbit_refresh_token = sync[s].refreshSent

----------------------------------------------------------------------------
(* Claims about the stored pair, checked under SpecUsers *)

\* C35: the access token and the refresh token of every row are both absent
\* or come from one response of the token endpoint: they carry the number of
\* the same response.
C35_PairFromOneResponse ==
    \A k \in Keys :
        \/ /\ db[k].fitbit_access_token = NullTok
           /\ db[k].fitbit_refresh_token = NullTok
        \/ \E n \in 0 .. MaxIssued :
              /\ db[k].fitbit_access_token = AccessTok(n)
              /\ db[k].fitbit_refresh_token = RefreshTok(n)

\* a refresh and a completed authorization for one user have both written
\* the user's row, each the pair of its own response
C35_Witness ==
    \E s \in Syncs, c \in Compls :
        /\ sync[s].nUpdate = 1 /\ sync[s].updateOk
        /\ compl[c].nUpsert = 1 /\ compl[c].result.kind = "success_page"
        /\ compl[c].target = sync[s].userId
        /\ sync[s].refreshData.access_token # compl[c].tokenData.access_token
        /\ db[sync[s].userId].fitbit_access_token
              \in {sync[s].refreshData.access_token, compl[c].tokenData.access_token}

----------------------------------------------------------------------------
(* Claims about the writes of a refresh, checked under Spec *)

\* C33: while the disconnect of a user is the latest of the user's disconnects
\* and completed authorizations, both tokens of the user's row are absent.
C33_DisconnectedStaysCleared ==
    \A k \in Users :
        lastAuth[k] = "disconnect" =>
            /\ db[k].fitbit_access_token = NullTok
            /\ db[k].fitbit_refresh_token = NullTok

\* C34: a relay invocation that ends in success after a refresh has had its
\* update of the profile accepted, and the row does not hold the refresh
\* token that the invocation spent at the token endpoint.
C34_RefreshWriteChecked ==
    \A s \in Syncs :
        (sync[s].pc = "done" /\ sync[s].result.success /\ sync[s].nRefresh >= 1) =>
            /\ sync[s].updateOk
            /\ db[sync[s].userId].fitbit_refresh_token # sync[s].refreshSent

----------------------------------------------------------------------------
(* Further claims about the callback handlers, checked under SpecAuth *)

\* C32: a callback with a valid code and a state value that no connect request
\* issued, answered with the success page, has written the row keyed by that
\* state value: the row holds the tokens of its exchange.
C32_StateIsUserId ==
    \A c \in Compls :
        (/\ compl[c].pc = "done"
         /\ compl[c].result.kind = "success_page"
         /\ HasCodeValue(compl[c].req.code)
         /\ compl[c].req.state = ForgedState
         /\ compl[c].flow.via = "none") =>
            /\ compl[c].target = compl[c].req.state
            /\ db[compl[c].req.state].exists
            /\ db[compl[c].req.state].fitbit_access_token = compl[c].tokenData.access_token
            /\ db[compl[c].req.state].fitbit_refresh_token = compl[c].tokenData.refresh_token

\* C38: the step in which a callback handler answers after its upsert answers
\* with the success page, or with a page that posts the success message, only
\* when the step has written the row of its target with the tokens of the
\* exchange; when the step leaves the table as it was (the store rejected the
\* upsert) the answer is a failure that posts no success message. The error
\* page of fitbit-oauth-callback breaks it: it repeats the message of the
\* store's error unescaped, and a message with a statement of its own posts
\* FITBIT_AUTH_SUCCESS.
C38_SuccessAfterWrite ==
    [][\A c \in Compls :
          (compl[c].pc = "upsert" /\ compl'[c].pc = "done") =>
              LET page == compl'[c].result
                  k == compl[c].target
              IN  /\ (page.kind = "success_page" \/ "FITBIT_AUTH_SUCCESS" \in page.posted) =>
                        /\ k \in Keys
                        /\ db'[k].exists
                        /\ db'[k].fitbit_access_token = compl[c].tokenData.access_token
                        /\ db'[k].fitbit_refresh_token = compl[c].tokenData.refresh_token
                        /\ db'[k].updated_at = compl[c].updatedAt
                  /\ db' = db =>
                        /\ page.kind \in {"json_error", "error_page"}
                        /\ "FITBIT_AUTH_SUCCESS" \notin page.posted
                        /\ page.message = StoreError]_vars

----------------------------------------------------------------------------
(* Claims about the buttons of the component, checked under SpecFacade *)

\* C31, as stated: a call of disconnectFitbit reports a failure only when the
\* store rejected its update, and then leaves the displayed state as it was,
\* which is connected; when the store accepted the update the call shows
\* not-connected.
C31_Original ==
    [][/\ \A t \in Stamps : UpdateAnswered(t, FALSE) => db' = db
       /\ DisconnectShown(FALSE) =>
             /\ facade'.toast = "Error"
             /\ facade'.isConnected = facade.isConnected
             /\ facade'.fitbitProfile = facade.fitbitProfile
             /\ facade'.isConnected
       /\ DisconnectShown(TRUE) =>
             /\ facade'.toast = "Fitbit Disconnected"
             /\ ~facade'.isConnected]_vars

\* C31, amended: disconnectFitbit sends its update only while the component
\* shows connected, stamped with the reading of the clock at the click; an
\* update the store rejects leaves the table as it was, and one it accepts
\* leaves the four fields of the row of the signed-in user cleared and
\* updated_at at that stamp; the call that resumes after a rejected update
\* reports the failure and leaves the displayed state as it was (connected,
\* unless another call has shown not-connected since the click), and the call
\* that resumes after an accepted update reports the disconnect and shows
\* not-connected.
C31_DisconnectOutcome ==
    [][/\ \A t \in Stamps :
             /\ UpdateSent(t) => facade.isConnected /\ ~facade.loading /\ t = now'
             /\ UpdateAnswered(t, FALSE) => db' = db
             /\ (UpdateAnswered(t, TRUE) /\ db[facade.user].exists) =>
                   /\ db'[facade.user].fitbit_access_token = NullTok
                   /\ db'[facade.user].fitbit_refresh_token = NullTok
                   /\ db'[facade.user].fitbit_user_id = "null"
                   /\ db'[facade.user].fitbit_connected_at = 0
                   /\ db'[facade.user].updated_at = t
       /\ DisconnectShown(FALSE) =>
             /\ facade'.toast = "Error"
             /\ facade'.isConnected = facade.isConnected
             /\ facade'.fitbitProfile = facade.fitbitProfile
       /\ DisconnectShown(TRUE) =>
             /\ facade'.toast = "Fitbit Disconnected"
             /\ ~facade'.isConnected
             /\ facade'.fitbitProfile = "null"]_vars

\* the update of a disconnect was rejected: the component reports the error
\* and shows connected, and the row holds its tokens
C31_Witness ==
    /\ facade.toast = "Error"
    /\ facade.isConnected
    /\ facade.discs = EmptyBag
    /\ db[facade.user].fitbit_access_token # NullTok

====
